---- MODULE Spec2Model ----
(***************************************************************************)
(* Workflow orchestration (SupervisorAgent), intent classification         *)
(* (IntentAgent) and bank reconciliation matching (ReconciliationService)  *)
(* of ca_multi_agent.                                                      *)
(*                                                                         *)
(* These state machines share this module:                                 *)
(*   MatchSpec  one run of ReconciliationService.match_bank_transactions   *)
(*   Spec       one run of SupervisorAgent.execute over the workflow       *)
(*              graph, and the chat endpoint's reply built on its result   *)
(*   IntentSpec IntentAgent.execute called on one message                  *)
(*   OrderSpec  the matcher run on two orderings of the same bank rows     *)
(*   StateSpec  one WorkflowState handed through a sequence of nodes       *)
(*   ConcSpec   two chat requests served concurrently by one process       *)
(*   VoucherSpec  calls of LedgerService.create_voucher on one session     *)
(*   PostingSpec  one run of LedgerPostingAgent.execute                    *)
(***************************************************************************)
EXTENDS Integers, Sequences, FiniteSets, TLC

VARIABLES
    \* ---- ReconciliationService.match_bank_transactions ----
    bank_transactions,   \* rows of the bank statement, in query order
    ledger_entries,      \* ledger rows of the period, in query order
    matches,             \* list of match records built so far
    unmatched_bank,      \* list of bank row positions still unmatched
    unmatched_ledger,    \* list of ledger row positions still unmatched
    txn_idx,             \* position of the outer loop over bank_transactions
    rec_status,          \* Reconciliation.status
    summary,             \* Reconciliation.summary
    \* ---- SupervisorAgent.execute ----
    registry,            \* which step implementations get_agent hands out
    org_id,              \* input_data['org_id'] present?
    attachments,         \* number of attachment ids of the request
    message,             \* the message text, as what the patterns find in it
    msg_intent,          \* intent the message patterns score highest
    msg_entities,        \* entity names the message patterns extract
    intent,              \* WorkflowState.intent
    entities,            \* WorkflowState.entities (names present)
    current_agent,       \* WorkflowState.current_agent
    artifacts,           \* WorkflowState.artifacts
    errors,              \* WorkflowState.errors
    agent_status,        \* WorkflowState.agent_status
    updated_at,          \* WorkflowState.updated_at
    now,                 \* the latest reading of the clock (datetime.now())
    status_log,          \* the calls of set_agent_status, in call order
    pc,                  \* node about to run, or how the run ended
    route,               \* nodes executed so far, in order
    raised,              \* the exception execute caught (line 44), if any
    response,            \* what execute returned
    chat,                \* what chat_endpoint answered
    \* ---- IntentAgent.execute ----
    results,             \* what the calls of IntentAgent.execute returned
    \* ---- concurrent chat requests ----
    supervisor_agent,    \* the module global of agents/supervisor.py
    ledger_service,      \* the module global of services/ledger_services.py
    calls,               \* the requests being served, by caller
    \* ---- LedgerService.create_voucher, LedgerPostingAgent.execute ----
    db_vouchers,         \* committed rows of the vouchers table
    db_ledger_entries,   \* committed rows of the ledger_entries table
    session,             \* rows written in the session's open transaction
    voucher_calls,       \* the calls of create_voucher, in call order
    transactions,        \* input_data['transactions']
    txn_pos,             \* position of the loop over transactions
    posted_entries,      \* _process_transactions: posted_entries
    unmapped_transactions, \* _process_transactions: unmapped_transactions
    posting_result       \* what LedgerPostingAgent.execute returned

matchVars == <<bank_transactions, ledger_entries, matches, unmatched_bank,
               unmatched_ledger, txn_idx, rec_status, summary>>
requestVars == <<registry, org_id, attachments, message, msg_intent, msg_entities>>
stateVars == <<intent, entities, current_agent, artifacts, errors, agent_status,
               updated_at>>
flowVars == <<requestVars, stateVars, pc, route, raised, response, chat, now,
              status_log>>
concVars == <<supervisor_agent, ledger_service, calls>>
ledgerVars == <<db_vouchers, db_ledger_entries, session, voucher_calls>>
postingVars == <<transactions, txn_pos, posted_entries, unmapped_transactions,
                 posting_result>>
vars == <<matchVars, flowVars, results, concVars, ledgerVars, postingVars>>

(***************************************************************************)
(* Bounds                                                                  *)
(***************************************************************************)
MaxBank == 2        \* longest bank statement explored
MaxLedger == 2      \* longest ledger extract explored
MaxSteps == 6       \* node executions explored in one run
MaxHits == 6        \* most patterns of one intent a message matches
MaxHitIntents == 2  \* most intents whose patterns a message matches
MaxCalls == 2       \* calls of IntentAgent.execute on one message

(***************************************************************************)
(* Generic helpers                                                         *)
(***************************************************************************)
Range(s) == {s[i] : i \in 1..Len(s)}

SeqsUpTo(S, n) == UNION {[1..k -> S] : k \in 0..n}

Abs(x) == IF x < 0 THEN -x ELSE x

MaxOf(S) == CHOOSE x \in S : \A y \in S : y <= x

MinOf(S) == CHOOSE x \in S : \A y \in S : x <= y

\* list.remove(x): drops the first element equal to x
RECURSIVE ListRemove(_, _)
ListRemove(s, x) ==
    IF s = <<>> THEN <<>>
    ELSE IF Head(s) = x THEN Tail(s)
    ELSE <<Head(s)>> \o ListRemove(Tail(s), x)

(***************************************************************************)
(* Scores.  A score of 1.0 is One; the weighted total of line 118 is kept  *)
(* in units of 1/(40*One) so that the IEEE-754 double result can be told   *)
(* from its neighbours one ulp up or down.  One is divisible by every      *)
(* combined description length explored (2..6 and 8), so ratios are exact. *)
(***************************************************************************)
One == 6000

Text(s) == [null |-> FALSE, text |-> s]
NullText == [null |-> TRUE, text |-> <<>>]

\* (description or "")
OrEmpty(d) == IF d.null THEN <<>> ELSE d.text

(***************************************************************************)
(* Rows explored: dates are day numbers, amounts are in hundredths         *)
(* (Numeric(14, 2) columns).                                               *)
(***************************************************************************)
BankRows ==
    { [date |-> 10, amount |-> 100,  description |-> Text(<<"a", "b">>)],
      [date |-> 10, amount |-> -100, description |-> Text(<<"A", "b">>)],
      [date |-> 10, amount |-> 100,  description |-> Text(<<>>)],
      [date |-> 10, amount |-> 105,  description |-> Text(<<"b", "a">>)],
      [date |-> 30, amount |-> 0,    description |-> Text(<<"a">>)],
      [date |-> 15, amount |-> 100,  description |-> Text(<<"a", "b", "c", "d">>)] }

LedgerRows ==
    { [date |-> 10, debit |-> 100, credit |-> 0,   description |-> Text(<<"a", "b">>)],
      [date |-> 10, debit |-> 0,   credit |-> 100, description |-> Text(<<"A", "b">>)],
      [date |-> 12, debit |-> 100, credit |-> 0,   description |-> NullText],
      [date |-> 10, debit |-> 95,  credit |-> 0,   description |-> Text(<<"a", "b">>)],
      [date |-> 10, debit |-> 100, credit |-> 0,   description |-> Text(<<>>)],
      [date |-> 25, debit |-> 0,   credit |-> 0,   description |-> Text(<<"a">>)],
      [date |-> 10, debit |-> 100, credit |-> 0,
       description |-> Text(<<"c", "x", "y", "z">>)] }

\* the descriptions of the rows explored
Descriptions ==
    {r.description : r \in BankRows} \cup {r.description : r \in LedgerRows}

LowerChar(c) == IF c = "A" THEN "a" ELSE IF c = "B" THEN "b" ELSE c

\* str.lower()
Lower(s) == [i \in 1..Len(s) |-> LowerChar(s[i])]

\* length of the common run of a from i and b from j
RECURSIVE RunLen(_, _, _, _)
RunLen(a, b, i, j) ==
    IF i > Len(a) \/ j > Len(b) \/ a[i] # b[j] THEN 0
    ELSE 1 + RunLen(a, b, i + 1, j + 1)

\* SequenceMatcher.find_longest_match without junk: the longest block, of
\* those the one starting earliest in a, of those the earliest in b
LongestMatch(a, b) ==
    LET k == MaxOf({RunLen(a, b, i, j) : i \in 1..Len(a), j \in 1..Len(b)})
        i == MinOf({x \in 1..Len(a) : \E y \in 1..Len(b) : RunLen(a, b, x, y) = k})
        j == MinOf({y \in 1..Len(b) : RunLen(a, b, i, y) = k})
    IN  <<i, j, k>>

\* sum of the sizes of SequenceMatcher.get_matching_blocks()
RECURSIVE MatchingChars(_, _)
MatchingChars(a, b) ==
    IF Len(a) = 0 \/ Len(b) = 0 THEN 0
    ELSE LET m == LongestMatch(a, b)
             i == m[1]
             j == m[2]
             k == m[3]
         IN  IF k = 0 THEN 0
             ELSE k + MatchingChars(SubSeq(a, 1, i - 1), SubSeq(b, 1, j - 1))
                    + MatchingChars(SubSeq(a, i + k, Len(a)), SubSeq(b, j + k, Len(b)))

\* SequenceMatcher(None, a, b).ratio() = 2.0 * M / T
Ratio(a, b) == (2 * MatchingChars(a, b) * One) \div (Len(a) + Len(b))

\* the amount score with the sign of the bank amount kept
_calculate_amount_score_signed(bank_txn, ledger_entry) ==
    LET bank_amount == bank_txn.amount
        ledger_amount == Abs(ledger_entry.debit - ledger_entry.credit)
        diff == Abs(bank_amount - ledger_amount)
        larger == IF bank_amount > ledger_amount THEN bank_amount ELSE ledger_amount
    IN  IF diff < 1 THEN One
        ELSE IF 20 * diff <= larger THEN (4 * One) \div 5
        ELSE 0

\* The amounts are Decimal (Numeric(14, 2)), in hundredths here: a difference
\* below 0.01 is no difference, and the Decimal quotient is compared with the
\* double 0.05, which lies just above 5/100, so a relative difference of
\* exactly 5% still scores 0.8.
_calculate_amount_score(bank_txn, ledger_entry) ==
    LET bank_amount == Abs(bank_txn.amount)
        ledger_amount == Abs(ledger_entry.debit - ledger_entry.credit)
        diff == Abs(bank_amount - ledger_amount)
        larger == IF bank_amount > ledger_amount THEN bank_amount ELSE ledger_amount
    IN  IF diff < 1 THEN One
        ELSE IF 20 * diff <= larger THEN (4 * One) \div 5
        ELSE 0

_calculate_date_score(bank_txn, ledger_entry) ==
    LET date_diff == Abs(bank_txn.date - ledger_entry.date)
    IN  IF date_diff = 0 THEN One
        ELSE IF date_diff <= 2 THEN (4 * One) \div 5
        ELSE IF date_diff <= 7 THEN One \div 2
        ELSE One \div 5

\* lines 163-171 for two descriptions
DescriptionRatio(description1, description2) ==
    LET desc1 == Lower(OrEmpty(description1))
        desc2 == Lower(OrEmpty(description2))
    IN  IF desc1 = <<>> \/ desc2 = <<>> THEN One \div 2
        ELSE Ratio(desc1, desc2)

\* the same for every two descriptions explored, computed once
DescriptionScores ==
    [d1 \in Descriptions, d2 \in Descriptions |-> DescriptionRatio(d1, d2)]

_calculate_description_score(bank_txn, ledger_entry) ==
    DescriptionScores[bank_txn.description, ledger_entry.description]

\* amount*0.5 + date*0.3 + desc*0.2 in double arithmetic lands one ulp above
\* the double nearest the exact sum for these score triples ...
RoundsUp ==
    { <<0, 1200, 4500>>, <<0, 1200, 4800>>, <<0, 3000, 4500>>,
      <<0, 3000, 4800>>, <<4800, 1200, 2000>>, <<4800, 1200, 4500>>,
      <<4800, 1200, 4800>>, <<4800, 3000, 1500>>, <<4800, 3000, 2400>>,
      <<4800, 3000, 4500>>, <<4800, 3000, 4800>>, <<4800, 4800, 1500>>,
      <<4800, 4800, 6000>>, <<6000, 1200, 1500>>, <<6000, 1200, 2400>>,
      <<6000, 1200, 4500>>, <<6000, 1200, 4800>>, <<6000, 3000, 1500>>,
      <<6000, 3000, 6000>>, <<6000, 4800, 2400>>, <<6000, 6000, 1500>>,
      <<6000, 6000, 2400>>, <<6000, 6000, 4500>>, <<6000, 6000, 4800>> }

\* ... and one ulp below it for these
RoundsDown ==
    { <<0, 1200, 2000>>, <<0, 4800, 3000>>, <<0, 4800, 4000>>,
      <<4800, 6000, 2000>>, <<4800, 6000, 3000>>, <<4800, 6000, 4000>>,
      <<4800, 6000, 6000>> }

Weighted(amount_score, date_score, desc_score) ==
    4 * (5 * amount_score + 3 * date_score + 2 * desc_score)
      + (IF <<amount_score, date_score, desc_score>> \in RoundsUp THEN 1
         ELSE IF <<amount_score, date_score, desc_score>> \in RoundsDown THEN -1
         ELSE 0)

\* total_score of one pair (lines 114-118)
TotalScore(bank_txn, ledger_entry) ==
    Weighted(_calculate_amount_score(bank_txn, ledger_entry),
             _calculate_date_score(bank_txn, ledger_entry),
             _calculate_description_score(bank_txn, ledger_entry))

\* the double 0.7 and the double 0.9 in the units of TotalScore
\* a threshold of 0.3 in place of 0.7
MatchThresholdLow == 12 * One

MatchThreshold == 28 * One
ExactThreshold == 36 * One
TotalOne == 40 * One


(***************************************************************************)
(* ReconciliationService._match_amount_date_description                    *)
(***************************************************************************)
\* line 110: ledger_entry in [m['ledger_entry'] for m in matches]
AlreadyMatchedNever(ms, j) == FALSE

AlreadyMatched(ms, j) == \E k \in 1..Len(ms) : ms[k].ledger_entry = j

\* line 120: total_score > best_score and total_score > 0.7
BeatsAnyBest(total_score, best_score) == total_score > best_score

Beats(total_score, best_score) ==
    total_score > best_score /\ total_score > MatchThreshold

\* line 128: 'exact' if best_score > 0.9 else 'partial'
MatchTypeAtLeast(best_score) ==
    IF best_score >= ExactThreshold THEN "exact" ELSE "partial"

MatchType(best_score) ==
    IF best_score > ExactThreshold THEN "exact" ELSE "partial"

\* lines 109-122: the inner loop over ledger_entries from position j on,
\* carrying best_match (0 is None) and best_score
RECURSIVE ScanLedger(_, _, _, _, _, _)
ScanLedger(bank_txn, ledgers, ms, j, best_match, best_score) ==
    IF j > Len(ledgers) THEN <<best_match, best_score>>
    ELSE IF AlreadyMatched(ms, j)
         THEN ScanLedger(bank_txn, ledgers, ms, j + 1, best_match, best_score)
    ELSE LET total_score == TotalScore(bank_txn, ledgers[j])
         IN  IF Beats(total_score, best_score)
             THEN ScanLedger(bank_txn, ledgers, ms, j + 1, j, total_score)
             ELSE ScanLedger(bank_txn, ledgers, ms, j + 1, best_match, best_score)

\* line 132: unmatched_ledger.remove(best_match)
KeepLedger(pool, best_match) == pool

RemoveLedger(pool, best_match) == ListRemove(pool, best_match)

\* lines 105-132: one pass of the outer loop, for bank_transactions[txn_idx]
MatchStep ==
    /\ rec_status = "in_progress"
    /\ txn_idx <= Len(bank_transactions)
    /\ LET best == ScanLedger(bank_transactions[txn_idx], ledger_entries,
                              matches, 1, 0, 0)
           best_match == best[1]
           best_score == best[2]
       IN  IF best_match # 0
           THEN /\ matches' = Append(matches,
                       [bank_transaction |-> txn_idx,
                        ledger_entry |-> best_match,
                        match_type |-> MatchType(best_score),
                        confidence |-> best_score])
                /\ unmatched_bank' = ListRemove(unmatched_bank, txn_idx)
                /\ unmatched_ledger' = RemoveLedger(unmatched_ledger, best_match)
           ELSE UNCHANGED <<matches, unmatched_bank, unmatched_ledger>>
    /\ txn_idx' = txn_idx + 1
    /\ UNCHANGED <<bank_transactions, ledger_entries, rec_status, summary>>
    /\ UNCHANGED <<flowVars, results, concVars, ledgerVars, postingVars>>

\* a quotient of two counts, kept exact
Quotient(n, d) == [num |-> n, den |-> d]

\* line 82 with // in place of /
MatchRateFloor(n_matches, n_bank) ==
    IF n_bank # 0 THEN Quotient(n_matches \div n_bank, 1) ELSE Quotient(0, 1)

\* line 82: len(matches) / len(bank_transactions) if bank_transactions else 0
MatchRate(n_matches, n_bank) ==
    IF n_bank # 0 THEN Quotient(n_matches, n_bank) ELSE Quotient(0, 1)

\* lines 74-86 of match_bank_transactions, once the matcher has returned
MatchFinish ==
    /\ rec_status = "in_progress"
    /\ txn_idx > Len(bank_transactions)
    /\ rec_status' = "completed"
    /\ summary' = [total_bank_transactions |-> Len(bank_transactions),
                   total_ledger_entries |-> Len(ledger_entries),
                   matched_count |-> Len(matches),
                   unmatched_bank_count |-> Len(unmatched_bank),
                   unmatched_ledger_count |-> Len(unmatched_ledger),
                   match_rate |-> MatchRate(Len(matches), Len(bank_transactions))]
    /\ UNCHANGED <<bank_transactions, ledger_entries, matches, unmatched_bank,
                   unmatched_ledger, txn_idx>>
    /\ UNCHANGED <<flowVars, results, concVars, ledgerVars, postingVars>>

NoSummary == [total_bank_transactions |-> 0, total_ledger_entries |-> 0,
              matched_count |-> 0, unmatched_bank_count |-> 0,
              unmatched_ledger_count |-> 0, match_rate |-> Quotient(0, 1)]

\* no request yet: no message, nothing caught, nothing returned, no reply
NoMessage == [blank |-> TRUE, hits |-> <<>>, ents |-> {}]

NoException == [kind |-> "none", message |-> "none"]

NoResponse == [success |-> FALSE, error |-> "pending"]

NoReply == [status |-> 0]

Callers == {1, 2}

\* a request that has not arrived
NoCall == [session_id |-> "None", pc |-> "idle", db |-> "none", nodes |-> <<>>,
           used |-> {}]

\* a module global that is still None; an instance holds the db session it
\* was built with, named after the caller whose request opened it
NoInstance == [db |-> 0]

\* no request is being served and the module globals are unset
ConcIdle ==
    /\ supervisor_agent = NoInstance
    /\ ledger_service = NoInstance
    /\ calls = [c \in Callers |-> NoCall]

\* nothing is pending in the session
EmptySession == [vouchers |-> {}, entries |-> {}]

NoPostingResult == [success |-> FALSE]

\* empty tables, no call of create_voucher and no posting run
LedgerIdle ==
    /\ db_vouchers = {}
    /\ db_ledger_entries = {}
    /\ session = EmptySession
    /\ voucher_calls = <<>>
    /\ transactions = <<>>
    /\ txn_pos = 1
    /\ posted_entries = <<>>
    /\ unmapped_transactions = <<>>
    /\ posting_result = NoPostingResult

\* lines 30-61: the rows are queried, the Reconciliation row is created
\* in_progress and the matcher starts with everything unmatched
MatchIdle ==
    /\ bank_transactions = <<>>
    /\ ledger_entries = <<>>
    /\ matches = <<>>
    /\ unmatched_bank = <<>>
    /\ unmatched_ledger = <<>>
    /\ txn_idx = 1
    /\ rec_status = "pending"
    /\ summary = NoSummary

FlowIdle ==
    /\ registry = "repo"
    /\ org_id = TRUE
    /\ attachments = 0
    /\ message = NoMessage
    /\ msg_intent = "advisory"
    /\ msg_entities = {}
    /\ intent = "None"
    /\ entities = {}
    /\ current_agent = "None"
    /\ artifacts = <<>>
    /\ errors = <<>>
    /\ agent_status = <<>>
    /\ updated_at = 0
    /\ now = 0
    /\ status_log = <<>>
    /\ pc = "idle"
    /\ route = <<>>
    /\ raised = NoException
    /\ response = NoResponse
    /\ chat = NoReply

MatchInit ==
    /\ bank_transactions \in SeqsUpTo(BankRows, MaxBank)
    /\ ledger_entries \in SeqsUpTo(LedgerRows, MaxLedger)
    /\ matches = <<>>
    /\ unmatched_bank = [i \in 1..Len(bank_transactions) |-> i]
    /\ unmatched_ledger = [j \in 1..Len(ledger_entries) |-> j]
    /\ txn_idx = 1
    /\ rec_status = "in_progress"
    /\ summary = NoSummary
    /\ FlowIdle
    /\ results = <<>>
    /\ ConcIdle
    /\ LedgerIdle

MatchNext == MatchStep \/ MatchFinish

MatchSpec == MatchInit /\ [][MatchNext]_vars


(***************************************************************************)
(* SupervisorAgent: the workflow graph of _build_workflow_graph, run by    *)
(* execute.  A run executes the node pc names, then follows that node's    *)
(* edge; the terminal marker END is followed by _format_final_response.    *)
(***************************************************************************)
END == "END"

Nodes ==
    { "intent_classification", "document_ingestion", "ledger_posting",
      "reconciliation", "gst_processing", "tax_processing", "compliance_check",
      "report_generation", "advisory", "anomaly_detection", "report_formatting" }

\* intents IntentAgent.intent_patterns declares
PatternIntents ==
    { "upload_docs", "post_entries", "reconcile", "tax_gst", "tax_it",
      "compliance", "report", "advisory" }

\* keys of the routing table of intent_classification
IntentKeys == PatternIntents \cup {"anomaly", "format"}

\* what a step bound to intent classification may hand back as result['intent']
AnyIntents == IntentKeys \cup {"other", "None"}

\* entity names: IntentAgent.entity_patterns extracts the first two
ExtractedEntities == {"period", "gstin"}
EntityNames == ExtractedEntities \cup {"report_types"}

(***************************************************************************)
(* IntentAgent.  A message is kept as what the agent's patterns find in    *)
(* it: whether it is blank, how many patterns of each intent match, and    *)
(* which entity patterns match.  Confidences are in hundredths; the score  *)
(* of n matching patterns is the double n additions of 0.2 give (three of  *)
(* them give 0.6000000000000001, kept as 60), capped at 1.0.               *)
(***************************************************************************)
\* the keys of intent_patterns, in dict order
PatternOrder ==
    << "upload_docs", "post_entries", "reconcile", "tax_gst", "tax_it",
       "compliance", "report", "advisory" >>

\* how many patterns each intent declares
PatternCount ==
    [i \in PatternIntents |->
        CASE i \in {"upload_docs", "post_entries", "reconcile"} -> 6
          [] i \in {"tax_gst", "tax_it", "compliance"} -> 8
          [] i = "report" -> 9
          [] i = "advisory" -> 11]

\* the pattern hits of the messages in which at most max_intents intents
\* have a matching pattern, at most max_hits each
HitProfiles(max_hits, max_intents) ==
    UNION { { [i \in PatternIntents |-> IF i \in S THEN f[i] ELSE 0] :
                f \in {g \in [S -> 1..max_hits] :
                          \A i \in S : g[i] <= PatternCount[i]} } :
            S \in {T \in SUBSET PatternIntents : Cardinality(T) <= max_intents} }

\* a blank message matches nothing
Messages(max_hits, max_intents) ==
    {[blank |-> TRUE, hits |-> [i \in PatternIntents |-> 0], ents |-> {}]}
    \cup {[blank |-> FALSE, hits |-> h, ents |-> e] :
            h \in HitProfiles(max_hits, max_intents),
            e \in SUBSET ExtractedEntities}

AttachmentConfidence == 95
BlankConfidence == 50

\* the score without the cap of line 109
_calculate_intent_score_uncapped(n_hits) == 20 * n_hits

\* min(score, 1.0) after adding 0.2 per matching pattern
_calculate_intent_score(n_hits) ==
    IF 20 * n_hits < 100 THEN 20 * n_hits ELSE 100

\* lines 95-99: the loop over intent_patterns from position k on
RECURSIVE ScanIntents(_, _, _, _)
ScanIntents(hits, k, best_intent, best_score) ==
    IF k > Len(PatternOrder) THEN [intent |-> best_intent, score |-> best_score]
    ELSE LET score == _calculate_intent_score(hits[PatternOrder[k]])
         IN  IF score > best_score
             THEN ScanIntents(hits, k + 1, PatternOrder[k], score)
             ELSE ScanIntents(hits, k + 1, best_intent, best_score)

\* the loop started without a default intent
BestPatternNoDefault(hits) == ScanIntents(hits, 1, "None", 0)

\* lines 92-101
BestPattern(hits) == ScanIntents(hits, 1, "advisory", 0)

\* the classification with the blank-message check of lines 89-90 left out
MessageClassNoBlank(msg) == BestPattern(msg.hits)

\* lines 89-101: what the text alone is classified as
MessageClass(msg) ==
    IF msg.blank THEN [intent |-> "advisory", score |-> BlankConfidence]
    ELSE BestPattern(msg.hits)

\* str in str
Contains(sub, str) ==
    \E i \in 1..(Len(str) - Len(sub) + 1) : SubSeq(str, i, i + Len(sub) - 1) = sub

\* the artifact mappings the supervisor's handlers build
Artifact(type, data, timestamp) ==
    [type |-> type, data |-> data, timestamp |-> timestamp]

\* what a step's execute may return: the keys of the mapping the routing reads
StepOutputs == {[success |-> ok, adjustments |-> "absent"] : ok \in BOOLEAN}

AnyOutputs ==
    {[success |-> ok, adjustments |-> adj] :
        ok \in BOOLEAN, adj \in {"absent", "empty", "nonempty"}}

\* a reconciliation step without the required-field check
ReconciliationOutputsUnchecked(bank_statement_id) ==
    {[success |-> TRUE, adjustments |-> "nonempty"]}

\* ReconciliationAgent.execute: fails its required-field check without a
\* bank_statement_id, else returns the two sample adjustments
ReconciliationOutputs(bank_statement_id) ==
    IF bank_statement_id
    THEN {[success |-> TRUE, adjustments |-> "nonempty"]}
    ELSE {}

\* the classification with lines 86-87 left out
_classify_intent_text_only(message_intent, n_attachments) == message_intent

\* IntentAgent._classify_intent
_classify_intent(message_intent, n_attachments) ==
    IF n_attachments > 0 THEN "upload_docs" ELSE message_intent

\* the confidence _classify_intent returns with the intent
_classify_confidence(message_score, n_attachments) ==
    IF n_attachments > 0 THEN AttachmentConfidence ELSE message_score

\* IntentAgent.execute: intent, confidence and entities of the output
IntentAgentExecute(msg, n_attachments) ==
    [intent |-> _classify_intent(MessageClass(msg).intent, n_attachments),
     confidence |-> _classify_confidence(MessageClass(msg).score, n_attachments),
     entities |-> msg.ents]

\* confidences a step bound to intent classification may hand back
AnyConfidences == {0, AttachmentConfidence}

_route_based_on_intent(state_intent) ==
    IF state_intent = "None" THEN "advisory" ELSE state_intent

\* a variant that sends the run back whenever reconciliation has reported
_route_after_posting_reco(arts) ==
    IF \E i \in 1..Len(arts) : Contains("reconciliation", arts[i].type)
    THEN "reconcile"
    ELSE "complete"

\* a variant that looks for 'ledger' in the artifact types
_route_after_posting_ledger(arts) ==
    IF \E i \in 1..Len(arts) : Contains("ledger", arts[i].type)
    THEN "reconcile"
    ELSE "complete"

_route_after_posting(arts) ==
    IF \E i \in 1..Len(arts) : Contains("bank", arts[i].type)
    THEN "reconcile"
    ELSE "complete"

\* a variant that never looks at the adjustments
_route_after_reconciliation_always(arts) ==
    IF arts # <<>> /\ arts[Len(arts)].type = "reconciliation_result"
    THEN "adjust"
    ELSE "complete"

_route_after_reconciliation(arts) ==
    IF /\ arts # <<>>
       /\ arts[Len(arts)].type = "reconciliation_result"
       /\ arts[Len(arts)].data.adjustments = "nonempty"
    THEN "adjust"
    ELSE "complete"

\* the {key: successor} tables of add_conditional_edges
IntentEdges ==
    [k \in IntentKeys |->
        CASE k = "upload_docs" -> "document_ingestion"
          [] k = "post_entries" -> "ledger_posting"
          [] k = "reconcile" -> "reconciliation"
          [] k = "tax_gst" -> "gst_processing"
          [] k = "tax_it" -> "tax_processing"
          [] k = "compliance" -> "compliance_check"
          [] k = "report" -> "report_generation"
          [] k = "advisory" -> "advisory"
          [] k = "anomaly" -> "anomaly_detection"
          [] k = "format" -> "report_formatting"]

PostingEdges ==
    [k \in {"reconcile", "tax", "report", "complete"} |->
        CASE k = "reconcile" -> "reconciliation"
          [] k = "tax" -> "gst_processing"
          [] k = "report" -> "report_generation"
          [] k = "complete" -> END]

ReconciliationEdges ==
    [k \in {"adjust", "complete"} |->
        CASE k = "adjust" -> "ledger_posting"
          [] k = "complete" -> END]

\* the values of a table
Targets(table) == {table[k] : k \in DOMAIN table}

\* a key is resolved through its table; a key the table lacks is a fault
Resolve(table, key) == IF key \in DOMAIN table THEN {table[key]} ELSE {"fault"}

\* the successors add_edge and add_conditional_edges configure for node
OutgoingEdges(node) ==
    CASE node = "intent_classification" -> Targets(IntentEdges)
      [] node = "document_ingestion" -> {"ledger_posting"}
      [] node = "ledger_posting" -> Targets(PostingEdges)
      [] node = "reconciliation" -> Targets(ReconciliationEdges)
      [] node \in {"gst_processing", "tax_processing", "report_generation"} ->
            {"report_formatting"}
      [] node = "report_formatting" -> {END}
      [] OTHER -> {}

\* the graph with the edge tax_processing -> report_formatting left out
SuccessorsNoTaxEdge(node, state_intent, arts) ==
    CASE node = "intent_classification" ->
            Resolve(IntentEdges, _route_based_on_intent(state_intent))
      [] node = "document_ingestion" -> {"ledger_posting"}
      [] node = "ledger_posting" -> Resolve(PostingEdges, _route_after_posting(arts))
      [] node = "reconciliation" ->
            Resolve(ReconciliationEdges, _route_after_reconciliation(arts))
      [] node \in {"gst_processing", "report_generation"} -> {"report_formatting"}
      [] node = "report_formatting" -> {END}
      [] OTHER -> {END, "fault"}

\* where the run may go after node: advisory, compliance_check and
\* anomaly_detection have no edge, which the graph library either treats as
\* the end of the run or rejects
Successors(node, state_intent, arts) ==
    CASE node = "intent_classification" ->
            Resolve(IntentEdges, _route_based_on_intent(state_intent))
      [] node = "document_ingestion" -> {"ledger_posting"}
      [] node = "ledger_posting" -> Resolve(PostingEdges, _route_after_posting(arts))
      [] node = "reconciliation" ->
            Resolve(ReconciliationEdges, _route_after_reconciliation(arts))
      [] node \in {"gst_processing", "tax_processing", "report_generation"} ->
            {"report_formatting"}
      [] node = "report_formatting" -> {END}
      [] OTHER -> {END, "fault"}

\* an exception: what kind of failure it is and the text str(e) gives
Exception(kind, text) == [kind |-> kind, message |-> text]

\* texts of the exceptions a step's execute raises
StepErrors == {"Missing required parameters"}

\* execute, lines 44-50: whatever escapes the graph becomes this mapping
Failure(e) == [success |-> FALSE, error |-> e.message]

\* the engine advances to nxt, or the fault escapes to execute
Advance(nxt) ==
    IF nxt = "fault"
    THEN /\ pc' = "failed"
         /\ raised' = Exception("configuration", "unresolved edge")
         /\ response' = Failure(raised')
    ELSE pc' = nxt /\ UNCHANGED <<raised, response>>

\* the step raised: no handler catches it, so it leaves the graph and
\* nothing of the state survives execute's except clause
Raised ==
    /\ pc' = "failed"
    /\ \E text \in StepErrors : raised' = Exception("step", text)
    /\ response' = Failure(raised')
    /\ UNCHANGED <<intent, entities, current_agent, artifacts, updated_at>>

\* execute, lines 26-31: WorkflowState requires org_id
Start ==
    /\ pc = "start"
    /\ IF org_id
       THEN pc' = "intent_classification" /\ UNCHANGED <<raised, response>>
       ELSE /\ pc' = "failed"
            /\ raised' = Exception("validation", "org_id field required")
            /\ response' = Failure(raised')
    /\ UNCHANGED <<requestVars, stateVars, route, chat, now, status_log>>
    /\ UNCHANGED <<matchVars, results, concVars, ledgerVars, postingVars>>

\* the frame of every node handler: none of them touches errors or
\* agent_status; time passes while the step executes, and the handler reads
\* the clock after it
NodeFrame(node) ==
    /\ pc = node
    /\ Len(route) < MaxSteps
    /\ route' = Append(route, node)
    /\ now' = now + 1
    /\ UNCHANGED <<requestVars, errors, agent_status, chat, status_log>>
    /\ UNCHANGED <<matchVars, results, concVars, ledgerVars, postingVars>>

\* _run_intent_agent
RunIntentAgent ==
    /\ NodeFrame("intent_classification")
    /\ \/ \E result \in
               IF registry = "repo"
               THEN {IntentAgentExecute(message, attachments)}
               ELSE {[intent |-> msg_intent, confidence |-> c,
                      entities |-> msg_entities] : c \in AnyConfidences} :
            /\ intent' = result.intent
            /\ entities' = result.entities
            /\ current_agent' = "A1_Intent_Classification"
            /\ updated_at' = now'
            /\ artifacts' = Append(artifacts,
                                   Artifact("intent_result", result, now'))
            /\ \E nxt \in Successors("intent_classification", intent', artifacts') :
                  Advance(nxt)
       \/ registry = "any" /\ Raised

\* the handlers that only record their agent's output:
\* state.update(current_agent=..., artifacts=state.artifacts + [...])
RunAgent(node, agent, type, outputs) ==
    /\ NodeFrame(node)
    /\ \/ \E data \in outputs :
            /\ current_agent' = agent
            /\ updated_at' = now'
            /\ artifacts' = Append(artifacts, Artifact(type, data, now'))
            /\ UNCHANGED <<intent, entities>>
            /\ \E nxt \in Successors(node, intent, artifacts') : Advance(nxt)
       \/ Raised

RunDocumentAgent ==
    /\ pc = "document_ingestion"
    /\ RunAgent("document_ingestion", "A2_Document_Ingestion",
                "document_ingestion_result", StepOutputs)

RunLedgerAgent ==
    /\ pc = "ledger_posting"
    /\ RunAgent("ledger_posting", "A3_Ledger_Posting", "ledger_posting_result",
                StepOutputs)

\* bank_statement_id is state.attachments[0] if state.attachments else None
RunReconciliationAgent ==
    /\ pc = "reconciliation"
    /\ RunAgent("reconciliation", "A5_Reconciliation", "reconciliation_result",
                IF registry = "repo"
                THEN ReconciliationOutputs(attachments > 0)
                ELSE AnyOutputs)

\* TaxService.calculate_gst_liability, lines 44-54: the keys of the
\* liability the reply reads; the amounts are not modelled
GstLiability ==
    [period |-> "MM-YYYY", output_tax_liability |-> "output_tax",
     input_tax_credit |-> "input_tax_credit",
     net_gst_payable |-> "max(0, net_liability)"]

\* GSTAgent.execute, lines 52-63
GstOutputs ==
    {[success |-> TRUE, adjustments |-> "absent", liability_summary |-> GstLiability]}

RunGstAgent ==
    /\ pc = "gst_processing"
    /\ RunAgent("gst_processing", "A6_GST_Agent", "gst_processing_result",
                IF registry = "repo" THEN GstOutputs ELSE StepOutputs \cup GstOutputs)

RunTaxAgent ==
    /\ pc = "tax_processing"
    /\ RunAgent("tax_processing", "A7_Income_Tax_Agent", "tax_processing_result",
                StepOutputs)

RunComplianceAgent ==
    /\ pc = "compliance_check"
    /\ RunAgent("compliance_check", "A8_Compliance_Calendar", "compliance_result",
                StepOutputs)

RunReportingAgent ==
    /\ pc = "report_generation"
    /\ RunAgent("report_generation", "A9_Reporting_Analytics", "reporting_result",
                StepOutputs)

RunAdvisoryAgent ==
    /\ pc = "advisory"
    /\ RunAgent("advisory", "A10_Advisory_Q&A", "advisory_result", StepOutputs)

RunAnomalyAgent ==
    /\ pc = "anomaly_detection"
    /\ RunAgent("anomaly_detection", "A11_Anomaly_Detection",
                "anomaly_detection_result", StepOutputs)

\* ReportFormatterAgent.execute, lines 40-53: the payload names the file
\* under /api/v1/artifacts/
FormatterOutputs ==
    {[success |-> TRUE, adjustments |-> "absent",
      download_url |-> "/api/v1/artifacts/{artifact_id}"]}

RunFormatterAgent ==
    /\ pc = "report_formatting"
    /\ RunAgent("report_formatting", "A12_Report_Formatter", "formatting_result",
                IF registry = "repo"
                THEN FormatterOutputs
                ELSE StepOutputs \cup FormatterOutputs)

\* str.replace(old, "") from position i on: every occurrence of old is
\* removed, left to right
RECURSIVE RemoveFrom(_, _, _)
RemoveFrom(str, old, i) ==
    IF i > Len(str) THEN ""
    ELSE IF i + Len(old) - 1 <= Len(str) /\ SubSeq(str, i, i + Len(old) - 1) = old
         THEN RemoveFrom(str, old, i + Len(old))
         ELSE SubSeq(str, i, i) \o RemoveFrom(str, old, i + 1)

RemoveAll(str, old) == RemoveFrom(str, old, 1)

\* the route given as the artifact types themselves
_get_agent_route_types(arts) ==
    LET HasResult(art) == Contains("result", art.type)
        kept == SelectSeq(arts, HasResult)
    IN  [i \in 1..Len(kept) |-> kept[i].type]

\* _get_agent_route, lines 476-478
_get_agent_route(arts) ==
    LET HasResult(art) == Contains("result", art.type)
        kept == SelectSeq(arts, HasResult)
    IN  [i \in 1..Len(kept) |-> RemoveAll(kept[i].type, "_result")]

\* an empty dict
EmptyDict == [k \in {} |-> "None"]

\* dict.get(key), None when the key is missing
Get(dict, key) == IF key \in DOMAIN dict THEN dict[key] ELSE "None"

\* a download URL in every response
HasDownloadAlways(arts) == TRUE

\* line 471: last_artifact.get('type') == 'formatting_result'
HasDownload(arts) == arts # <<>> /\ arts[Len(arts)].type = "formatting_result"

\* a response whose success is that of the last step's output
_format_final_response_of_result(arts) ==
    [success |-> IF arts = <<>> THEN TRUE ELSE arts[Len(arts)].data.success,
     session_id |-> "str(state.session_id)",
     result |-> IF arts = <<>> THEN EmptyDict ELSE arts[Len(arts)].data,
     artifacts |-> [i \in 1..Len(arts) |->
                       [type |-> arts[i].type, timestamp |-> arts[i].timestamp]],
     agent_route |-> _get_agent_route(arts)]

\* _format_final_response, lines 452-474: the mapping it returns, without
\* org_id and processing_time
_format_final_response(arts) ==
    LET base == [success |-> TRUE,
                 session_id |-> "str(state.session_id)",
                 result |-> IF arts = <<>> THEN EmptyDict ELSE arts[Len(arts)].data,
                 artifacts |-> [i \in 1..Len(arts) |->
                                   [type |-> arts[i].type,
                                    timestamp |-> arts[i].timestamp]],
                 agent_route |-> _get_agent_route(arts)]
    IN  IF HasDownload(arts)
        THEN [download_url |-> Get(arts[Len(arts)].data, "download_url")] @@ base
        ELSE base

\* execute, line 42, once the graph has reached END
FormatFinalResponse ==
    /\ pc = END
    /\ pc' = "done"
    /\ response' = _format_final_response(artifacts)
    /\ UNCHANGED <<requestVars, stateVars, route, raised, chat, now, status_log>>
    /\ UNCHANGED <<matchVars, results, concVars, ledgerVars, postingVars>>

\* uuid.UUID(x) of a UUID object instead of a string
UuidError == "'UUID' object has no attribute 'replace'"

\* chat_endpoint, once execute has returned: _format_chat_response reads
\* session_id, which only _format_final_response supplies; without it the
\* conversion of the default uuid.uuid4() raises and line 59 answers 500.
\* ChatRequest requires org_id, so a request without one never gets here.
ChatEndpoint ==
    /\ pc \in {"done", "failed"}
    /\ org_id
    /\ chat = NoReply
    /\ chat' = IF "session_id" \in DOMAIN response
               THEN [status |-> 200,
                     success |-> response.success,
                     artifacts |-> response.artifacts]
               ELSE [status |-> 500,
                     detail |-> "Chat processing failed: " \o UuidError]
    /\ UNCHANGED <<requestVars, stateVars, pc, route, raised, response, now,
                   status_log>>
    /\ UNCHANGED <<matchVars, results, concVars, ledgerVars, postingVars>>

\* the messages explored in a run of the graph: at most one matching pattern
MaxRunHits == 1

Init ==
    /\ registry \in {"repo", "any"}
    /\ org_id \in BOOLEAN
    /\ attachments \in 0..1
    /\ message \in Messages(IF registry = "repo" THEN MaxRunHits ELSE 0,
                            IF registry = "repo" THEN MaxRunHits ELSE 0)
    /\ msg_intent \in IF registry = "repo"
                      THEN {MessageClass(message).intent}
                      ELSE AnyIntents
    /\ msg_entities \in IF registry = "repo"
                        THEN {message.ents}
                        ELSE {e \in SUBSET EntityNames :
                                e \cap ExtractedEntities = message.ents}
    /\ intent = "None"
    /\ entities = {}
    /\ current_agent = "None"
    /\ artifacts = <<>>
    /\ errors = <<>>
    /\ agent_status = <<>>
    /\ updated_at = 0
    /\ now = 0
    /\ status_log = <<>>
    /\ pc = "start"
    /\ route = <<>>
    /\ raised = NoException
    /\ response = NoResponse
    /\ chat = NoReply
    /\ results = <<>>
    /\ ConcIdle
    /\ MatchIdle
    /\ LedgerIdle

Next ==
    \/ Start
    \/ RunIntentAgent
    \/ RunDocumentAgent
    \/ RunLedgerAgent
    \/ RunReconciliationAgent
    \/ RunGstAgent
    \/ RunTaxAgent
    \/ RunComplianceAgent
    \/ RunReportingAgent
    \/ RunAdvisoryAgent
    \/ RunAnomalyAgent
    \/ RunFormatterAgent
    \/ FormatFinalResponse
    \/ ChatEndpoint

Spec == Init /\ [][Next]_vars

(***************************************************************************)
(* IntentAgent.execute, called MaxCalls times on one message               *)
(***************************************************************************)
Classify ==
    /\ pc = "idle"
    /\ Len(results) < MaxCalls
    /\ results' = Append(results, IntentAgentExecute(message, attachments))
    /\ UNCHANGED <<matchVars, flowVars, concVars, ledgerVars, postingVars>>

IntentInit ==
    /\ registry = "repo"
    /\ org_id = TRUE
    /\ attachments \in 0..1
    /\ message \in Messages(MaxHits, MaxHitIntents)
    /\ msg_intent = MessageClass(message).intent
    /\ msg_entities = message.ents
    /\ intent = "None"
    /\ entities = {}
    /\ current_agent = "None"
    /\ artifacts = <<>>
    /\ errors = <<>>
    /\ agent_status = <<>>
    /\ updated_at = 0
    /\ now = 0
    /\ status_log = <<>>
    /\ pc = "idle"
    /\ route = <<>>
    /\ raised = NoException
    /\ response = NoResponse
    /\ chat = NoReply
    /\ results = <<>>
    /\ ConcIdle
    /\ MatchIdle
    /\ LedgerIdle

IntentNext == Classify

IntentSpec == IntentInit /\ [][IntentNext]_vars

(***************************************************************************)
(* _match_amount_date_description run on the bank transactions in the      *)
(* order given, then on the same transactions in another order             *)
(***************************************************************************)
\* the orderings compared: the order given and its reverse
Orderings(n) == {[i \in 1..n |-> i], [i \in 1..n |-> n + 1 - i]}

\* the bank rows taken in their stored order, whatever order is asked for
BankAtStored(order, k) == k

\* line 105: the transaction the outer loop takes at its k-th turn
BankAt(order, k) == order[k]

\* lines 105-134: the outer loop from position k of the ordering on; a
\* transaction is named by its position in banks
RECURSIVE MatchAll(_, _, _, _, _)
MatchAll(order, banks, ledgers, k, ms) ==
    IF k > Len(order) THEN ms
    ELSE LET best == ScanLedger(banks[BankAt(order, k)], ledgers, ms, 1, 0, 0)
         IN  IF best[1] # 0
             THEN MatchAll(order, banks, ledgers, k + 1,
                           Append(ms, [bank_transaction |-> BankAt(order, k),
                                       ledger_entry |-> best[1],
                                       match_type |-> MatchType(best[2]),
                                       confidence |-> best[2]]))
             ELSE MatchAll(order, banks, ledgers, k + 1, ms)

\* one call of the matcher with the bank transactions in the given order
MatchOrdering(order) ==
    /\ results' = Append(results,
                         [order |-> order,
                          matches |-> MatchAll(order, bank_transactions,
                                               ledger_entries, 1, <<>>)])
    /\ UNCHANGED <<matchVars, flowVars, concVars, ledgerVars, postingVars>>

\* the first call gets the transactions as stored
MatchInOrder ==
    /\ pc = "ordering"
    /\ results = <<>>
    /\ MatchOrdering([i \in 1..Len(bank_transactions) |-> i])

\* the second call gets them as stored or reversed
MatchReordered ==
    /\ pc = "ordering"
    /\ Len(results) = 1
    /\ \E order \in Orderings(Len(bank_transactions)) : MatchOrdering(order)

OrderInit ==
    /\ bank_transactions \in SeqsUpTo(BankRows, MaxBank)
    /\ ledger_entries \in SeqsUpTo(LedgerRows, MaxLedger)
    /\ matches = <<>>
    /\ unmatched_bank = <<>>
    /\ unmatched_ledger = <<>>
    /\ txn_idx = 1
    /\ rec_status = "pending"
    /\ summary = NoSummary
    /\ registry = "repo"
    /\ org_id = TRUE
    /\ attachments = 0
    /\ message = NoMessage
    /\ msg_intent = "advisory"
    /\ msg_entities = {}
    /\ intent = "None"
    /\ entities = {}
    /\ current_agent = "None"
    /\ artifacts = <<>>
    /\ errors = <<>>
    /\ agent_status = <<>>
    /\ updated_at = 0
    /\ now = 0
    /\ status_log = <<>>
    /\ pc = "ordering"
    /\ route = <<>>
    /\ raised = NoException
    /\ response = NoResponse
    /\ chat = NoReply
    /\ results = <<>>
    /\ ConcIdle
    /\ LedgerIdle

OrderNext == MatchInOrder \/ MatchReordered

OrderSpec == OrderInit /\ [][OrderNext]_vars

(***************************************************************************)
(* One WorkflowState handed through a sequence of node executions: the     *)
(* agent nodes WorkflowNodes.create_agent_node builds, and handlers that   *)
(* record their result with WorkflowState.update as the supervisor's do    *)
(***************************************************************************)
MaxNodeRuns == 3    \* node executions explored on one state

\* agent names a node is created for (_prepare_agent_input, lines 92-109)
AgentNames == {"A1_Intent_Classification", "A2_Document_Ingestion", "A6_GST_Agent"}

\* add_artifact keeping only the newest artifact
add_artifact_latest(arts, artifact_type, data, timestamp, agent) ==
    <<[type |-> artifact_type, data |-> data, timestamp |-> timestamp,
       agent |-> agent]>>

\* WorkflowState.add_artifact, called while current_agent is agent
add_artifact(arts, artifact_type, data, timestamp, agent) ==
    Append(arts, [type |-> artifact_type, data |-> data,
                  timestamp |-> timestamp, agent |-> agent])

\* WorkflowState.add_error, called while current_agent is agent
add_error(errs, error, context, timestamp, agent) ==
    Append(errs, [error_type |-> error.error_type,
                  error_message |-> error.message,
                  context |-> context,
                  timestamp |-> timestamp, agent |-> agent])

\* WorkflowState.set_agent_status
set_agent_status(status, agent_name, value) ==
    [a \in DOMAIN status \cup {agent_name} |->
        IF a = agent_name THEN value ELSE status[a]]

\* the call set_agent_status(agent_name, value), as status_log keeps it
StatusCall(agent_name, value) == [agent |-> agent_name, status |-> value]

\* nodes.py line 37 calls log_execution_end(result, execution_time) with one
\* argument
LogEndError ==
    [error_type |-> "TypeError",
     message |-> "AgentLogger.log_execution_end() missing 1 required positional argument: 'execution_time'"]

\* what agent.execute raises
ExecuteErrors == {[error_type |-> "ValueError", message |-> text] : text \in StepErrors}

\* every node execution of this machine: time passes while the agent runs
StateFrame(agent_name) ==
    /\ pc = "nodes"
    /\ Len(route) < MaxNodeRuns
    /\ route' = Append(route, agent_name)
    /\ now' = now + 1
    /\ UNCHANGED <<requestVars, intent, entities, pc, raised, response, chat>>
    /\ UNCHANGED <<matchVars, results, concVars, ledgerVars, postingVars>>

\* agent_node, lines 17-53.  When execute returns, lines 33-35 record the
\* artifact, the status completed and the current agent, then line 37 raises
\* inside the try block and lines 50-51 record the error and the status
\* failed.  When execute raises, only lines 50-51 run.
AgentNode ==
    \E agent_name \in AgentNames :
        /\ StateFrame(agent_name)
        /\ \/ \E result \in StepOutputs :
                /\ artifacts' = add_artifact(artifacts, agent_name \o "_result",
                                             result, now', current_agent)
                /\ current_agent' = agent_name
                /\ errors' = add_error(errors, LogEndError, [agent |-> agent_name],
                                       now', current_agent')
                /\ agent_status' =
                      set_agent_status(
                          set_agent_status(agent_status, agent_name, "completed"),
                          agent_name, "failed")
                /\ status_log' = status_log \o <<StatusCall(agent_name, "completed"),
                                                 StatusCall(agent_name, "failed")>>
           \/ \E e \in ExecuteErrors :
                /\ errors' = add_error(errors, e, [agent |-> agent_name], now',
                                       current_agent)
                /\ agent_status' = set_agent_status(agent_status, agent_name, "failed")
                /\ status_log' = Append(status_log, StatusCall(agent_name, "failed"))
                /\ UNCHANGED <<artifacts, current_agent>>
        /\ UNCHANGED updated_at

\* a handler of the supervisor's kind (_run_document_agent, lines 157-164):
\* state.update(current_agent=..., artifacts=state.artifacts + [...])
UpdateNode ==
    \E agent_name \in AgentNames :
        /\ StateFrame(agent_name)
        /\ \E data \in StepOutputs :
              artifacts' = Append(artifacts,
                                  Artifact(agent_name \o "_result", data, now'))
        /\ current_agent' = agent_name
        /\ updated_at' = now'
        /\ UNCHANGED <<errors, agent_status, status_log>>

StateInit ==
    /\ registry = "any"
    /\ org_id = TRUE
    /\ attachments = 0
    /\ message = NoMessage
    /\ msg_intent = "advisory"
    /\ msg_entities = {}
    /\ intent = "None"
    /\ entities = {}
    /\ current_agent = "None"
    /\ artifacts = <<>>
    /\ errors = <<>>
    /\ agent_status = <<>>
    /\ updated_at = 0
    /\ now = 0
    /\ status_log = <<>>
    /\ pc = "nodes"
    /\ route = <<>>
    /\ raised = NoException
    /\ response = NoResponse
    /\ chat = NoReply
    /\ results = <<>>
    /\ ConcIdle
    /\ MatchIdle
    /\ LedgerIdle

StateNext == AgentNode \/ UpdateNode

StateSpec == StateInit /\ [][StateNext]_vars

(***************************************************************************)
(* Two chat requests served by one process.  Nothing in chat_endpoint or   *)
(* SupervisorAgent.execute takes a lock, so the requests advance node by   *)
(* node in any order.                                                      *)
(***************************************************************************)
MaxRunNodes == 3    \* node executions explored in each of the runs

\* session ids a ChatRequest may carry
SessionIds == {"s1", "s2"}

\* the nodes of a run classified tax_gst
GstRoute == <<"intent_classification", "gst_processing", "report_formatting">>

RunLength == MinOf({MaxRunNodes, Len(GstRoute)})

\* get_supervisor, lines 483-488: the first caller's db_session is kept
get_supervisor(instance, db_session) ==
    IF instance = NoInstance THEN [db |-> db_session] ELSE instance

\* get_ledger_service, lines 191-195
get_ledger_service(instance, db_session) ==
    IF instance = NoInstance THEN [db |-> db_session] ELSE instance

\* the handlers that pass self.db to get_agent (lines 172-339); the intent
\* agent and the formatter are built without a session (lines 126, 360)
UsesDb(node) == node \notin {"intent_classification", "report_formatting"}

\* chat_endpoint, lines 32-41, and execute, lines 26-31: get_db opens the
\* session of this request (named after the caller), get_supervisor returns
\* the global, and execute builds a WorkflowState of its own, whose
\* session_id is a new uuid4 whatever the request carried
ChatRequest(c) ==
    /\ pc = "serving"
    /\ calls[c].pc = "idle"
    /\ supervisor_agent' = get_supervisor(supervisor_agent, c)
    /\ calls' = [calls EXCEPT ![c].pc = "running", ![c].db = "open"]
    /\ UNCHANGED ledger_service
    /\ UNCHANGED <<matchVars, flowVars, results, ledgerVars, postingVars>>

\* one node of the run of caller c: the handler builds its agent with the
\* supervisor's db, and the agent's constructor asks for the ledger service
\* (a6_gst_agent.py lines 16-17)
ConcNode(c) ==
    /\ pc = "serving"
    /\ calls[c].pc = "running"
    /\ Len(calls[c].nodes) < RunLength
    /\ LET node == GstRoute[Len(calls[c].nodes) + 1]
       IN  /\ calls' = [calls EXCEPT
                          ![c].nodes = Append(@, node),
                          ![c].used = IF UsesDb(node)
                                      THEN @ \cup {supervisor_agent.db}
                                      ELSE @]
           /\ ledger_service' =
                 IF UsesDb(node)
                 THEN get_ledger_service(ledger_service, supervisor_agent.db)
                 ELSE ledger_service
    /\ UNCHANGED supervisor_agent
    /\ UNCHANGED <<matchVars, flowVars, results, ledgerVars, postingVars>>

\* the graph has ended: execute returns, chat_endpoint answers and get_db
\* closes the session of this request (dependencies.py lines 13-14)
ChatRespond(c) ==
    /\ pc = "serving"
    /\ calls[c].pc = "running"
    /\ Len(calls[c].nodes) = RunLength
    /\ calls' = [calls EXCEPT ![c].pc = "done", ![c].db = "closed"]
    /\ UNCHANGED <<supervisor_agent, ledger_service>>
    /\ UNCHANGED <<matchVars, flowVars, results, ledgerVars, postingVars>>

ConcInit ==
    /\ registry = "any"
    /\ org_id = TRUE
    /\ attachments = 0
    /\ message = NoMessage
    /\ msg_intent = "tax_gst"
    /\ msg_entities = {}
    /\ intent = "None"
    /\ entities = {}
    /\ current_agent = "None"
    /\ artifacts = <<>>
    /\ errors = <<>>
    /\ agent_status = <<>>
    /\ updated_at = 0
    /\ now = 0
    /\ status_log = <<>>
    /\ pc = "serving"
    /\ route = <<>>
    /\ raised = NoException
    /\ response = NoResponse
    /\ chat = NoReply
    /\ results = <<>>
    /\ MatchIdle
    /\ LedgerIdle
    /\ supervisor_agent = NoInstance
    /\ ledger_service = NoInstance
    /\ calls \in {[c \in Callers |-> [NoCall EXCEPT !.session_id = sid[c]]] :
                    sid \in [Callers -> SessionIds]}

ConcNext ==
    \E c \in Callers : ChatRequest(c) \/ ConcNode(c) \/ ChatRespond(c)

ConcSpec == ConcInit /\ [][ConcNext]_vars

(***************************************************************************)
(* LedgerService.create_voucher on one database session.  Amounts are in   *)
(* hundredths.  The rows a call writes stay in the session's transaction   *)
(* until commit moves them to the tables or rollback discards them.        *)
(***************************************************************************)
MaxVoucherCalls == 2

\* entry.get(key, default)
GetOr(dict, key, default) == IF key \in DOMAIN dict THEN dict[key] ELSE default

\* entries lists handed to create_voucher: balanced, unbalanced, empty, off
\* by 0.01 (0.03 against 0.02, and 1.01 against 1.00), without a credit key,
\* and with an entry that lacks account_code
EntryLists ==
    { <<>>,
      <<[account_code |-> "RENT", debit |-> 100, credit |-> 0],
        [account_code |-> "BANK", debit |-> 0, credit |-> 100]>>,
      <<[account_code |-> "RENT", debit |-> 100]>>,
      <<[account_code |-> "RENT", debit |-> 100, credit |-> 0],
        [account_code |-> "BANK", debit |-> 0, credit |-> 98]>>,
      <<[account_code |-> "CASH", debit |-> 3, credit |-> 0],
        [account_code |-> "SALES", debit |-> 0, credit |-> 2]>>,
      <<[account_code |-> "CASH", debit |-> 101, credit |-> 0],
        [account_code |-> "SALES", debit |-> 0, credit |-> 100]>>,
      <<[account_code |-> "RENT", debit |-> 100, credit |-> 0],
        [debit |-> 0, credit |-> 100]>>,
      <<[account_code |-> "MISC_EXPENSE", debit |-> 0, credit |-> 0]>> }

RECURSIVE SumOf(_, _, _)
SumOf(entries, key, i) ==
    IF i > Len(entries) THEN 0
    ELSE GetOr(entries[i], key, 0) + SumOf(entries, key, i + 1)

\* lines 33-34
TotalDebit(entries) == SumOf(entries, "debit", 1)
TotalCredit(entries) == SumOf(entries, "credit", 1)

\* totals one hundredth apart whose difference as a double is above the
\* double 0.01: 1.01 - 1.0 is 0.010000000000000009, 0.03 - 0.02 is
\* 0.009999999999999998
DifferenceRoundsOver == {<<101, 100>>, <<100, 101>>}

\* no balance check at all
OverToleranceNever(total_debit, total_credit) == FALSE

\* line 36: abs(total_debit - total_credit) > 0.01
OverTolerance(total_debit, total_credit) ==
    \/ Abs(total_debit - total_credit) > 1
    \/ <<total_debit, total_credit>> \in DifferenceRoundsOver

\* what the except clauses can catch
VoucherErrors == {"ValueError", "SQLAlchemyError", "KeyError"}

\* a call of create_voucher: the voucher id the flush will assign, the
\* entries handed in, where the call is and the exception it raised
VoucherCall(id, entries) ==
    [id |-> id, entries |-> entries, pc |-> "called", error |-> "None"]

\* the rows lines 40-49 and 56-66 build
VoucherRow(call) ==
    [id |-> call.id, amount |-> TotalDebit(call.entries)]

LedgerEntryRow(call, i) ==
    [voucher_id |-> call.id, pos |-> i,
     account_code |-> call.entries[i].account_code,
     debit |-> GetOr(call.entries[i], "debit", 0),
     credit |-> GetOr(call.entries[i], "credit", 0)]

\* an except clause that does not roll back
RollbackNothing(sess) == sess

\* self.db.rollback(), lines 73 and 77
Rollback(sess) == EmptySession

\* the call in progress is the last one
Current == voucher_calls[Len(voucher_calls)]

InCall(at) == IF voucher_calls = <<>> THEN FALSE ELSE Current.pc = at

CallFinished ==
    IF voucher_calls = <<>> THEN TRUE ELSE Current.pc \in {"returned", "raised"}

SetCurrent(call) == voucher_calls' = [voucher_calls EXCEPT ![Len(voucher_calls)] = call]

\* lines 72-79: roll back what sess holds and re-raise
RaiseFrom(sess, error) ==
    /\ session' = Rollback(sess)
    /\ SetCurrent([Current EXCEPT !.pc = "raised", !.error = error])
    /\ UNCHANGED <<db_vouchers, db_ledger_entries>>

VoucherFrame(at) ==
    /\ InCall(at)
    /\ UNCHANGED <<matchVars, flowVars, results, concVars, postingVars>>

\* lines 32-37
CheckTotals ==
    /\ VoucherFrame("called")
    /\ IF OverTolerance(TotalDebit(Current.entries), TotalCredit(Current.entries))
       THEN RaiseFrom(session, "ValueError")
       ELSE /\ SetCurrent([Current EXCEPT !.pc = "validated"])
            /\ UNCHANGED <<db_vouchers, db_ledger_entries, session>>

\* lines 40-52: the voucher is added and flushed, or the flush fails
AddVoucher ==
    /\ VoucherFrame("validated")
    /\ \/ /\ session' = [session EXCEPT !.vouchers = @ \cup {VoucherRow(Current)}]
          /\ SetCurrent([Current EXCEPT !.pc = "flushed"])
          /\ UNCHANGED <<db_vouchers, db_ledger_entries>>
       \/ RaiseFrom(session, "SQLAlchemyError")

\* the positions of entries whose row line 56 can build
Buildable(entries) ==
    {i \in 1..Len(entries) :
        \A j \in 1..i : "account_code" \in DOMAIN entries[j]}

\* lines 55-67: the entries are added one by one; entry_data['account_code']
\* raises KeyError at the first entry that lacks the key
AddEntries ==
    /\ VoucherFrame("flushed")
    /\ LET added == [session EXCEPT !.entries =
                        @ \cup {LedgerEntryRow(Current, i) :
                                   i \in Buildable(Current.entries)}]
       IN  IF Buildable(Current.entries) = 1..Len(Current.entries)
           THEN /\ session' = added
                /\ SetCurrent([Current EXCEPT !.pc = "added"])
                /\ UNCHANGED <<db_vouchers, db_ledger_entries>>
           ELSE RaiseFrom(added, "KeyError")

\* lines 69-70: commit writes everything the session holds, or fails
Commit ==
    /\ VoucherFrame("added")
    /\ \/ /\ db_vouchers' = db_vouchers \cup session.vouchers
          /\ db_ledger_entries' = db_ledger_entries \cup session.entries
          /\ session' = EmptySession
          /\ SetCurrent([Current EXCEPT !.pc = "returned"])
       \/ RaiseFrom(session, "SQLAlchemyError")

\* a caller hands create_voucher an entries list
CallCreateVoucher ==
    /\ pc = "vouchers"
    /\ CallFinished
    /\ Len(voucher_calls) < MaxVoucherCalls
    /\ \E entries \in EntryLists :
          voucher_calls' = Append(voucher_calls,
                                  VoucherCall(Len(voucher_calls) + 1, entries))
    /\ UNCHANGED <<db_vouchers, db_ledger_entries, session>>
    /\ UNCHANGED <<matchVars, flowVars, results, concVars, postingVars>>

VoucherInit ==
    /\ registry = "repo"
    /\ org_id = TRUE
    /\ attachments = 0
    /\ message = NoMessage
    /\ msg_intent = "advisory"
    /\ msg_entities = {}
    /\ intent = "None"
    /\ entities = {}
    /\ current_agent = "None"
    /\ artifacts = <<>>
    /\ errors = <<>>
    /\ agent_status = <<>>
    /\ updated_at = 0
    /\ now = 0
    /\ status_log = <<>>
    /\ pc = "vouchers"
    /\ route = <<>>
    /\ raised = NoException
    /\ response = NoResponse
    /\ chat = NoReply
    /\ results = <<>>
    /\ ConcIdle
    /\ MatchIdle
    /\ LedgerIdle

VoucherNext ==
    CallCreateVoucher \/ CheckTotals \/ AddVoucher \/ AddEntries \/ Commit

VoucherSpec == VoucherInit /\ [][VoucherNext]_vars

(***************************************************************************)
(* LedgerPostingAgent.execute: each transaction is mapped to an account    *)
(* and handed to create_voucher as a voucher of one entry.                 *)
(***************************************************************************)
MaxTransactions == 2

\* transactions of the input: description, amount in hundredths and type
TransactionRows ==
    { [description |-> "Office Rent", amount |-> 25000, type |-> "debit"],
      [description |-> "xyz", amount |-> 250, type |-> "credit"],
      [description |-> "xyz", amount |-> -100, type |-> "debit"],
      [description |-> "xyz", amount |-> 1, type |-> "credit"],
      [description |-> "xyz", amount |-> 0, type |-> "debit"],
      [description |-> "sale", amount |-> -1, type |-> "credit"] }

\* str.lower() of the descriptions of TransactionRows
DescriptionLower(str) == IF str = "Office Rent" THEN "office rent" ELSE str

\* lines 98-111: keywords and account code of each rule, in order
MappingRules ==
    << <<{"salary", "wage", "payroll"}, "SALARIES">>,
       <<{"rent", "lease"}, "RENT">>,
       <<{"electricity", "power", "utility"}, "UTILITIES">>,
       <<{"internet", "broadband", "wifi"}, "INTERNET">>,
       <<{"tax", "gst", "tds"}, "TAX_PAYABLE">>,
       <<{"bank", "hdfc", "icici", "sbi"}, "BANK">>,
       <<{"cash", "petty cash"}, "CASH">>,
       <<{"sale", "revenue", "income"}, "SALES">>,
       <<{"purchase", "buy", "procure"}, "PURCHASES">>,
       <<{"travel", "conveyance", "fuel"}, "TRAVEL">>,
       <<{"meal", "food", "restaurant"}, "MEALS">>,
       <<{"software", "subscription", "saas"}, "SOFTWARE">> >>

\* lines 114-125: the first rule with a keyword in the description, else
\* the fallback by sign and type
AccountCode(description, amount, transaction_type) ==
    LET hits == {k \in 1..Len(MappingRules) :
                    \E keyword \in MappingRules[k][1] :
                        Contains(keyword, description)}
    IN  IF hits # {} THEN MappingRules[MinOf(hits)][2]
        ELSE IF amount > 0
             THEN (IF transaction_type = "credit" THEN "MISC_INCOME"
                   ELSE "MISC_EXPENSE")
             ELSE (IF transaction_type = "debit" THEN "MISC_EXPENSE"
                   ELSE "MISC_INCOME")

\* LedgerService.map_transaction_to_coa: account_code, debit_amount,
\* credit_amount
map_transaction_to_coa(description, amount, transaction_type) ==
    [account_code |-> AccountCode(description, amount, transaction_type),
     debit |-> IF transaction_type = "debit" THEN Abs(amount) ELSE 0,
     credit |-> IF transaction_type = "debit" THEN 0 ELSE Abs(amount)]

\* lines 90-113: voucher_data of one transaction
VoucherData(transaction) ==
    map_transaction_to_coa(DescriptionLower(transaction.description), transaction.amount,
                           transaction.type)

PostingFrame ==
    /\ pc = "posting"
    /\ UNCHANGED <<requestVars, stateVars, pc, route, raised, response, chat, now,
                   status_log>>
    /\ UNCHANGED <<matchVars, results, concVars>>

\* execute, lines 19-25
PostingStart ==
    /\ pc = "posting_start"
    /\ IF org_id
       THEN pc' = "posting" /\ UNCHANGED raised
       ELSE /\ pc' = "failed"
            /\ raised' = Exception("step", "Organization ID is required")
    /\ UNCHANGED <<requestVars, stateVars, route, response, chat, now, status_log>>
    /\ UNCHANGED <<matchVars, results, concVars, ledgerVars, postingVars>>

\* _process_single_transaction, lines 90-124: up to the call of
\* create_voucher with entries=[voucher_data]
ProcessTransaction ==
    /\ PostingFrame
    /\ txn_pos <= Len(transactions)
    /\ Len(voucher_calls) = txn_pos - 1
    /\ voucher_calls' = Append(voucher_calls,
                               VoucherCall(txn_pos,
                                           <<VoucherData(transactions[txn_pos])>>))
    /\ UNCHANGED <<db_vouchers, db_ledger_entries, session, postingVars>>

\* lines 129-137 and 56-74: create_voucher has returned or raised; the
\* transaction goes to posted_entries or to unmapped_transactions
FinishTransaction ==
    /\ PostingFrame
    /\ txn_pos <= Len(transactions)
    /\ Len(voucher_calls) = txn_pos
    /\ CallFinished
    /\ IF Current.pc = "returned"
       THEN /\ posted_entries' =
                  Append(posted_entries,
                         [success |-> TRUE, voucher_id |-> Current.id,
                          account_code |-> Current.entries[1].account_code,
                          debit |-> Current.entries[1].debit,
                          credit |-> Current.entries[1].credit])
            /\ UNCHANGED unmapped_transactions
       ELSE /\ unmapped_transactions' =
                  Append(unmapped_transactions,
                         [transaction |-> transactions[txn_pos],
                          error |-> Current.error])
            /\ UNCHANGED posted_entries
    /\ txn_pos' = txn_pos + 1
    /\ UNCHANGED <<transactions, posting_result, ledgerVars>>

\* execute, lines 30-40
PostingReturn ==
    /\ pc = "posting"
    /\ txn_pos > Len(transactions)
    /\ pc' = "posted"
    /\ posting_result' = [success |-> TRUE,
                          processed_count |-> Len(posted_entries),
                          unmapped_count |-> Len(unmapped_transactions),
                          posted_entries |-> posted_entries,
                          unmapped_transactions |-> unmapped_transactions]
    /\ UNCHANGED <<transactions, txn_pos, posted_entries, unmapped_transactions>>
    /\ UNCHANGED <<requestVars, stateVars, route, raised, response, chat, now,
                   status_log>>
    /\ UNCHANGED <<matchVars, results, concVars, ledgerVars>>

PostingInit ==
    /\ registry = "repo"
    /\ org_id \in BOOLEAN
    /\ attachments = 0
    /\ message = NoMessage
    /\ msg_intent = "advisory"
    /\ msg_entities = {}
    /\ intent = "None"
    /\ entities = {}
    /\ current_agent = "None"
    /\ artifacts = <<>>
    /\ errors = <<>>
    /\ agent_status = <<>>
    /\ updated_at = 0
    /\ now = 0
    /\ status_log = <<>>
    /\ pc = "posting_start"
    /\ route = <<>>
    /\ raised = NoException
    /\ response = NoResponse
    /\ chat = NoReply
    /\ results = <<>>
    /\ ConcIdle
    /\ MatchIdle
    /\ db_vouchers = {}
    /\ db_ledger_entries = {}
    /\ session = EmptySession
    /\ voucher_calls = <<>>
    /\ transactions \in SeqsUpTo(TransactionRows, MaxTransactions)
    /\ txn_pos = 1
    /\ posted_entries = <<>>
    /\ unmapped_transactions = <<>>
    /\ posting_result = NoPostingResult

PostingNext ==
    \/ PostingStart \/ ProcessTransaction \/ FinishTransaction \/ PostingReturn
    \/ CheckTotals \/ AddVoucher \/ AddEntries \/ Commit

PostingSpec == PostingInit /\ [][PostingNext]_vars


(***************************************************************************)
(* Properties                                                              *)
(***************************************************************************)
Count(seq, x) == Cardinality({i \in 1..Len(seq) : seq[i] = x})

Last(seq) == seq[Len(seq)]

Finished == pc \in {"done", "failed"}

\* where the run went after the node executed last
WentTo == IF pc = "done" THEN END ELSE pc

\* WorkflowState.get_artifact: position of the most recent artifact of a type
LatestOf(arts, type) ==
    LET at == {i \in 1..Len(arts) : arts[i].type = type}
    IN  IF at = {} THEN 0 ELSE MaxOf(at)

\* C1: in every run the reconciliation -> ledger_posting -> reconciliation
\* cycle is traversed a bounded number of times and the run stops after
\* finitely many node executions: reconciliation and ledger_posting each run
\* at most once, no run executes more than three nodes, and a run that has
\* not ended can always take its next step.
C1_CycleBounded ==
    /\ Count(route, "reconciliation") <= 1
    /\ Count(route, "ledger_posting") <= 1
    /\ Len(route) <= 3
    /\ Finished \/ ENABLED Next

C1_Witness ==
    /\ route = <<"intent_classification", "reconciliation", "ledger_posting">>
    /\ pc = "done"

\* C2: when every reconciliation of a run reports a non-empty adjustments
\* list, the run is aborted and the caller receives the error code
\* LoopBoundExceeded, distinct from that of an ordinary step failure.
C2_LoopBoundExceeded ==
    ( /\ Finished
      /\ \E i \in 1..Len(artifacts) : artifacts[i].type = "reconciliation_result"
      /\ \A i \in 1..Len(artifacts) :
            artifacts[i].type = "reconciliation_result"
                => artifacts[i].data.adjustments = "nonempty" )
    => (response.success = FALSE /\ response.error = "LoopBoundExceeded")

\* C3: the matches of one run never reference the same ledger entry twice.
C3_LedgerMatchedOnce ==
    \A m, n \in 1..Len(matches) :
        m # n => matches[m].ledger_entry # matches[n].ledger_entry

\* two bank transactions were matched, and the second scores higher against
\* the entry the first one took than against the one it got
C3_Witness ==
    /\ Len(matches) = 2
    /\ TotalScore(bank_transactions[matches[2].bank_transaction],
                  ledger_entries[matches[1].ledger_entry]) > matches[2].confidence

\* ledger positions no match references
Pool(ms, ledgers) ==
    {j \in 1..Len(ledgers) : \A k \in 1..Len(ms) : ms[k].ledger_entry # j}

\* C4: each bank transaction, in input order, is paired with the not yet
\* matched ledger entry of greatest weighted total, and only when that total
\* is strictly above 0.7; otherwise it stays unmatched and no ledger entry
\* leaves the candidate pool.
C4_GreedyBest ==
    [][ txn_idx' = txn_idx + 1 =>
          LET b == bank_transactions[txn_idx]
              pool == Pool(matches, ledger_entries)
              totals == {TotalScore(b, ledger_entries[j]) : j \in pool}
          IN  IF pool # {} /\ MaxOf(totals) > MatchThreshold
              THEN /\ Len(matches') = Len(matches) + 1
                   /\ SubSeq(matches', 1, Len(matches)) = matches
                   /\ Last(matches').bank_transaction = txn_idx
                   /\ Last(matches').ledger_entry \in pool
                   /\ TotalScore(b, ledger_entries[Last(matches').ledger_entry])
                         = MaxOf(totals)
                   /\ Pool(matches', ledger_entries)
                         = pool \ {Last(matches').ledger_entry}
                   /\ Range(unmatched_ledger')
                         = Range(unmatched_ledger) \ {Last(matches').ledger_entry}
                   /\ Range(unmatched_bank') = Range(unmatched_bank) \ {txn_idx}
              ELSE /\ matches' = matches
                   /\ unmatched_ledger' = unmatched_ledger
                   /\ unmatched_bank' = unmatched_bank
      ]_vars

\* the first transaction took the second ledger entry, the better one, and
\* the second transaction stayed unmatched although an entry was left
C4_Witness ==
    /\ txn_idx = 3
    /\ Len(ledger_entries) = 2
    /\ Len(matches) = 1
    /\ matches[1].bank_transaction = 1
    /\ matches[1].ledger_entry = 2
    /\ unmatched_bank = <<2>>
    /\ unmatched_ledger = <<1>>

\* same amount, same date, same description
Identical(bank_txn, ledger_entry) ==
    /\ bank_txn.amount = ledger_entry.debit - ledger_entry.credit
    /\ bank_txn.date = ledger_entry.date
    /\ bank_txn.description = ledger_entry.description

\* the three scores and the total of the pair are 1.0 and every match of the
\* pair is exact with confidence 1.0
AllOnes(i, j) ==
    LET b == bank_transactions[i]
        l == ledger_entries[j]
    IN  /\ _calculate_amount_score(b, l) = One
        /\ _calculate_date_score(b, l) = One
        /\ _calculate_description_score(b, l) = One
        /\ TotalScore(b, l) = TotalOne
        /\ \A k \in 1..Len(matches) :
              (matches[k].bank_transaction = i /\ matches[k].ledger_entry = j)
                 => (matches[k].match_type = "exact"
                     /\ matches[k].confidence = TotalOne)

\* C5 as stated: a bank transaction and a ledger entry with identical amount,
\* date and description score 1.0 on each part and in total, and a match of
\* the pair is exact with confidence 1.0.
C5_IdenticalIsExact ==
    rec_status = "completed" =>
    \A i \in 1..Len(bank_transactions), j \in 1..Len(ledger_entries) :
        Identical(bank_transactions[i], ledger_entries[j]) => AllOnes(i, j)

\* C5 amended: the same, for pairs whose identical description is not empty.
C5_IdenticalNonEmptyIsExact ==
    rec_status = "completed" =>
    \A i \in 1..Len(bank_transactions), j \in 1..Len(ledger_entries) :
        ( /\ Identical(bank_transactions[i], ledger_entries[j])
          /\ OrEmpty(bank_transactions[i].description) # <<>> )
        => AllOnes(i, j)

\* an identical pair with a description (and a negative amount) was matched
C5_Witness ==
    \E k \in 1..Len(matches) :
        LET b == bank_transactions[matches[k].bank_transaction]
            l == ledger_entries[matches[k].ledger_entry]
        IN  /\ Identical(b, l)
            /\ OrEmpty(b.description) # <<>>
            /\ b.amount < 0

\* C6: every match is exact when its confidence is strictly above 0.9 and
\* partial otherwise, and its confidence is the weighted total of the matched
\* pair, a value in [0, 1].
C6_MatchTypeByConfidence ==
    \A k \in 1..Len(matches) :
        LET m == matches[k]
        IN  /\ m.match_type \in {"exact", "partial"}
            /\ m.match_type = "exact" <=> m.confidence > ExactThreshold
            /\ m.confidence = TotalScore(bank_transactions[m.bank_transaction],
                                         ledger_entries[m.ledger_entry])
            /\ 0 <= m.confidence /\ m.confidence <= TotalOne

\* a match whose confidence is exactly 0.9 is partial, next to an exact one
C6_Witness ==
    /\ \E k \in 1..Len(matches) :
          matches[k].confidence = ExactThreshold /\ matches[k].match_type = "partial"
    /\ \E k \in 1..Len(matches) : matches[k].match_type = "exact"

\* C7: the summary has match_rate = matched_count / total_bank_transactions
\* when there is a bank transaction and match_rate = 0 when there is none,
\* matched_count being the number of matches the matcher returned.
C7_MatchRate ==
    rec_status = "completed" =>
        /\ summary.matched_count = Len(matches)
        /\ summary.total_bank_transactions = Len(bank_transactions)
        /\ summary.match_rate.den > 0
        /\ IF summary.total_bank_transactions > 0
           THEN summary.match_rate.num * summary.total_bank_transactions
                    = summary.matched_count * summary.match_rate.den
           ELSE summary.match_rate.num = 0

\* one of two bank transactions was matched: the rate is a proper fraction
C7_Witness ==
    /\ rec_status = "completed"
    /\ summary.total_bank_transactions = 2
    /\ summary.matched_count = 1

\* C8: every bank transaction is in exactly one match or once in the
\* unmatched-bank list, every ledger entry is in exactly one match or once in
\* the unmatched-ledger list, and the counts of the summary add up.
C8_Partition ==
    /\ \A i \in 1..Len(bank_transactions) :
          Cardinality({k \in 1..Len(matches) : matches[k].bank_transaction = i})
            + Count(unmatched_bank, i) = 1
    /\ \A j \in 1..Len(ledger_entries) :
          Cardinality({k \in 1..Len(matches) : matches[k].ledger_entry = j})
            + Count(unmatched_ledger, j) = 1
    /\ Range(unmatched_bank) \subseteq 1..Len(bank_transactions)
    /\ Range(unmatched_ledger) \subseteq 1..Len(ledger_entries)
    /\ rec_status = "completed" =>
          /\ summary.matched_count + summary.unmatched_bank_count
                = summary.total_bank_transactions
          /\ summary.matched_count + summary.unmatched_ledger_count
                = summary.total_ledger_entries
          /\ summary.total_bank_transactions = Len(bank_transactions)
          /\ summary.total_ledger_entries = Len(ledger_entries)

\* a finished run with a match and leftovers on both sides
C8_Witness ==
    /\ rec_status = "completed"
    /\ summary.matched_count = 1
    /\ summary.unmatched_bank_count = 1
    /\ summary.unmatched_ledger_count = 1

\* C9: after ledger_posting the run goes to reconciliation if an artifact so
\* far is bank-related, else to the tax node if tax entities are present,
\* else to report_generation if a report was requested, else to the terminal
\* marker.
C9_PostingPriority ==
    (route # <<>> /\ Last(route) = "ledger_posting" /\ pc # "failed") =>
        WentTo =
            IF \E i \in 1..Len(artifacts) : Contains("bank", artifacts[i].type)
            THEN "reconciliation"
            ELSE IF "gstin" \in entities THEN "gst_processing"
            ELSE IF intent = "report" \/ "report_types" \in entities
                 THEN "report_generation"
            ELSE END

\* C10: after reconciliation the run goes back to ledger_posting exactly when
\* the latest reconciliation artifact carries a non-empty adjustments list,
\* and to the terminal marker otherwise.
C10_ReconciliationRouting ==
    (route # <<>> /\ Last(route) = "reconciliation" /\ pc # "failed") =>
        LET at == LatestOf(artifacts, "reconciliation_result")
        IN  /\ at # 0
            /\ WentTo = IF artifacts[at].data.adjustments = "nonempty"
                        THEN "ledger_posting"
                        ELSE END

\* reconciliation reported adjustments and the run is back at ledger_posting
C10_Witness ==
    /\ route # <<>>
    /\ Last(route) = "reconciliation"
    /\ pc = "ledger_posting"
    /\ artifacts[Len(artifacts)].data.adjustments = "nonempty"

\* the handler of the i-th executed node returned normally
Returned(i) == i < Len(route) \/ raised.kind # "step"

\* the node the run went to after the i-th executed node
NextOf(i) == IF i < Len(route) THEN route[i + 1] ELSE WentTo

\* the artifact types of the state, in order
ArtifactTypes == [i \in 1..Len(artifacts) |-> artifacts[i].type]

C12_UnconditionalEdges ==
    \A i \in 1..Len(route) :
        Returned(i) =>
            /\ route[i] = "document_ingestion" => NextOf(i) = "ledger_posting"
            /\ route[i] \in {"gst_processing", "tax_processing", "report_generation"}
                  => NextOf(i) = "report_formatting"
            /\ route[i] = "report_formatting" => NextOf(i) = END

\* an income-tax request went through report_formatting to the end
C12_Witness ==
    /\ route = <<"intent_classification", "tax_processing", "report_formatting">>
    /\ pc = "done"

\* C13: every node a run executes has a configured outgoing edge, and a run
\* in which no handler fails and every routing key has an edge ends at the
\* terminal marker and not in a fault.
C13_ReachesEnd ==
    /\ \A i \in 1..Len(route) : OutgoingEdges(route[i]) # {}
    /\ (pc = "failed" /\ intent \in IntentKeys \cup {"None"})
          => raised.kind \in {"step", "validation"}

\* C14: when a node handler raises, the state holds an error record tagged
\* with that node, the node's status is failed and the response has
\* success = false.
C14_FailureRecorded ==
    (pc = "failed" /\ raised.kind = "step") =>
        /\ \E k \in 1..Len(errors) : errors[k].agent = Last(route)
        /\ Last(route) \in DOMAIN agent_status
        /\ agent_status[Last(route)] = "failed"
        /\ response.success = FALSE

\* C15: after a node handler raises no further handler runs, and the caller
\* is handed the state accumulated up to the failure, with the artifacts of
\* the steps completed before it.
C15_PartialStateReturned ==
    raised.kind = "step" =>
        /\ pc = "failed"
        /\ "artifacts" \in DOMAIN response
        /\ response.artifacts = ArtifactTypes

\* C16: no exception of a step's execute leaves its node handler; a failing
\* step call becomes an output mapping with success = false.
C16_NoStepExceptionEscapes == raised.kind # "step"

\* C17: every call of execute, and every chat request built on it, is
\* answered by a structured response with a boolean success field.
C17_StructuredResponse ==
    /\ Finished => ("success" \in DOMAIN response /\ response.success \in BOOLEAN)
    /\ chat # NoReply =>
          (chat.status = 200 /\ "success" \in DOMAIN chat /\ chat.success \in BOOLEAN)

\* C18: when a step fails with message m, m is in no field of the response
\* of execute or of the chat endpoint.
C18_NoRawExceptionText ==
    raised.kind = "step" =>
        /\ "error" \in DOMAIN response => ~Contains(raised.message, response.error)
        /\ "detail" \in DOMAIN chat => ~Contains(raised.message, chat.detail)

C20_AttachmentsUploadDocs ==
    (registry = "repo" /\ attachments > 0 /\ route # <<>>) =>
        LET at == LatestOf(artifacts, "intent_result")
        IN  /\ at # 0
            /\ artifacts[at].data.intent = "upload_docs"
            /\ artifacts[at].data.confidence = AttachmentConfidence
            /\ intent = "upload_docs"
            /\ NextOf(1) = "document_ingestion"

\* a GST question with an attachment went to document_ingestion
C20_Witness ==
    /\ registry = "repo"
    /\ attachments > 0
    /\ MessageClass(message).intent = "tax_gst"
    /\ Len(route) >= 2
    /\ route[2] = "document_ingestion"

\* C21: for a message that is empty or only whitespace, without attachments,
\* the intent agent returns intent advisory, confidence 0.5 and no entities.
C21_BlankIsAdvisory ==
    (message.blank /\ attachments = 0) =>
        \A k \in 1..Len(results) :
            /\ results[k].intent = "advisory"
            /\ results[k].confidence = 50
            /\ results[k].entities = {}

\* the agent was called on a blank message without attachments
C21_Witness ==
    /\ message.blank
    /\ attachments = 0
    /\ Len(results) >= 1

\* s is what t starts with
IsPrefix(s, t) == Len(s) <= Len(t) /\ SubSeq(t, 1, Len(s)) = s

\* C22: over any sequence of node executions, the artifacts list and the
\* errors list before an operation are a prefix of the list after it: no
\* record is removed, replaced or reordered.
C22_AppendOnly ==
    [][IsPrefix(artifacts, artifacts') /\ IsPrefix(errors, errors')]_vars

\* both lists have grown more than once, by both kinds of node
C22_Witness ==
    /\ Len(artifacts) >= 2
    /\ Len(errors) >= 2
    /\ \E i \in 1..Len(artifacts) : "agent" \notin DOMAIN artifacts[i]
    /\ \E i \in 1..Len(errors) : errors[i].error_type = "ValueError"

\* C23: the status of a step only moves forward: once set_agent_status has
\* made a step completed or failed, no later call gives that step another
\* status.
C23_StatusMonotonic ==
    \A i, j \in 1..Len(status_log) :
        ( /\ i < j
          /\ status_log[i].agent = status_log[j].agent
          /\ status_log[i].status \in {"completed", "failed"} )
        => status_log[j].status = status_log[i].status

\* C24: every artifact and every error record appended while a step runs
\* carries the name of that step as its agent.
C24_TaggedWithStep ==
    [][ Len(route') = Len(route) + 1 =>
          /\ Len(artifacts') > Len(artifacts) =>
                /\ "agent" \in DOMAIN Last(artifacts')
                /\ Last(artifacts').agent = Last(route')
          /\ Len(errors') > Len(errors) =>
                Last(errors').agent = Last(route')
      ]_vars

\* C25: every operation that changes the WorkflowState sets updated_at to the
\* time of the operation.
C25_UpdatedAtRefreshed ==
    [][ stateVars' # stateVars => updated_at' = now' ]_vars

\* the run of caller c has executed some of its nodes and not all of them
MidRun(c) ==
    /\ calls[c].pc = "running"
    /\ calls[c].nodes # <<>>
    /\ Len(calls[c].nodes) < RunLength

\* C26: two concurrent calls that carry the same session id are never
\* advanced at the same time: while one of them is between its first and its
\* last node, the other executes no node.
C26_SameSessionSerialized ==
    \A c, d \in Callers :
        (c # d /\ calls[c].session_id = calls[d].session_id)
            => ~(MidRun(c) /\ MidRun(d))

\* C27: every node of a run uses the database session its own request was
\* handed, whatever other requests were served before or meanwhile.
C27_OwnCollaborators ==
    \A c \in Callers : calls[c].used \subseteq {c}

\* C28: the response has one summary entry (type and timestamp, no payload)
\* per artifact, in order; its result is the payload of the last artifact;
\* and its agent_route has one entry per artifact, in order, each the
\* artifact's type without its "_result" suffix.
C28_ResponseAssembly ==
    pc = "done" =>
        /\ Len(response.artifacts) = Len(artifacts)
        /\ \A i \in 1..Len(artifacts) :
              /\ DOMAIN response.artifacts[i] = {"type", "timestamp"}
              /\ response.artifacts[i].type = artifacts[i].type
              /\ response.artifacts[i].timestamp = artifacts[i].timestamp
        /\ artifacts # <<>> => response.result = Last(artifacts).data
        /\ Len(response.agent_route) = Len(artifacts)
        /\ \A i \in 1..Len(artifacts) :
              response.agent_route[i] \o "_result" = artifacts[i].type

\* a run of three nodes has been answered
C28_Witness ==
    /\ pc = "done"
    /\ Len(artifacts) = 3
    /\ response.agent_route = <<"intent", "gst_processing", "formatting">>

\* some executed node is one of gst_processing, tax_processing and
\* report_generation
ThroughReporting ==
    \E i \in 1..Len(route) :
        route[i] \in {"gst_processing", "tax_processing", "report_generation"}

GstReplyKeys ==
    {"period", "output_tax_liability", "input_tax_credit", "net_gst_payable"}

CappedScore(n_hits) == MinOf({20 * n_hits, 100})

\* the greatest capped score of a message over all categories
TopScore(msg) == MaxOf({CappedScore(msg.hits[i]) : i \in PatternIntents})

\* the earliest-declared category whose capped score is the greatest
FirstTop(msg) ==
    PatternOrder[MinOf({k \in 1..Len(PatternOrder) :
                          CappedScore(msg.hits[PatternOrder[k]]) = TopScore(msg)})]

\* C33: for a non-empty message without attachments the intent is the
\* earliest-declared category whose score min(0.2 x matching patterns, 1.0)
\* is the maximum over all categories, the confidence is that score, and
\* when no pattern matches the intent is advisory.
C33_EarliestHighestScore ==
    (~message.blank /\ attachments = 0) =>
        \A k \in 1..Len(results) :
            /\ results[k].confidence = TopScore(message)
            /\ results[k].intent = IF TopScore(message) = 0 THEN "advisory"
                                   ELSE FirstTop(message)

\* a tie made by the cap: five patterns of an earlier category and six of a
\* later one, and the earlier category was returned
C33_Witness ==
    /\ ~message.blank
    /\ attachments = 0
    /\ Len(results) >= 1
    /\ \E a, b \in 1..Len(PatternOrder) :
          /\ a < b
          /\ message.hits[PatternOrder[a]] = 5
          /\ message.hits[PatternOrder[b]] = 6
          /\ results[1].intent = PatternOrder[a]
          /\ results[1].confidence = 100

\* the (bank transaction, ledger entry) pairs of a list of matches
Pairs(ms) == {<<ms[k].bank_transaction, ms[k].ledger_entry>> : k \in 1..Len(ms)}

\* the sum of the confidences of a list of matches
RECURSIVE Weight(_, _)
Weight(ms, k) == IF k > Len(ms) THEN 0 ELSE ms[k].confidence + Weight(ms, k + 1)

\* the ledger entries taken by the transactions that come before position p
\* of the ordering of run r
TakenBefore(r, p) ==
    {r.matches[k].ledger_entry : k \in {m \in 1..Len(r.matches) :
        \E q \in 1..(p - 1) : r.order[q] = r.matches[m].bank_transaction}}

\* run r is the greedy choice in its order: each transaction, in turn, gets
\* an entry of greatest total among those not yet taken if that total is
\* above 0.7, and nothing otherwise
GreedyInOrder(r) ==
    /\ \A k, m \in 1..Len(r.matches) :
          k < m => \E p, q \in 1..Len(r.order) :
                      /\ p < q
                      /\ r.order[p] = r.matches[k].bank_transaction
                      /\ r.order[q] = r.matches[m].bank_transaction
    /\ \A p \in 1..Len(r.order) :
          LET b == bank_transactions[r.order[p]]
              pool == (1..Len(ledger_entries)) \ TakenBefore(r, p)
              totals == {TotalScore(b, ledger_entries[j]) : j \in pool}
              mine == {k \in 1..Len(r.matches) :
                          r.matches[k].bank_transaction = r.order[p]}
          IN  IF pool # {} /\ MaxOf(totals) > MatchThreshold
              THEN /\ Cardinality(mine) = 1
                   /\ \A k \in mine :
                         /\ r.matches[k].ledger_entry \in pool
                         /\ r.matches[k].confidence = MaxOf(totals)
              ELSE mine = {}

\* C32: the matcher is greedy in the order the bank transactions are given:
\* for one order the result is fixed (two runs on the same order agree and
\* each is the greedy choice in that order), while the result may change
\* with the order and need not be an assignment of greatest total weight.
C32_GreedyOrderDependent ==
    /\ \A k \in 1..Len(results) : GreedyInOrder(results[k])
    /\ \A k, m \in 1..Len(results) :
          results[k].order = results[m].order
              => results[k].matches = results[m].matches

\* the same two transactions in the other order got different pairs, and
\* the pairs of the order given weigh less than those of the other order
C32_Witness ==
    /\ Len(results) = 2
    /\ results[1].order # results[2].order
    /\ Pairs(results[1].matches) # Pairs(results[2].matches)
    /\ Weight(results[1].matches, 1) < Weight(results[2].matches, 1)

\* the amount score as stated: on the signed bank amount and debit minus
\* credit, with a relative difference strictly below 5%
StatedAmountScore(bank_txn, ledger_entry) ==
    LET bank_amount == bank_txn.amount
        ledger_amount == ledger_entry.debit - ledger_entry.credit
        diff == Abs(bank_amount - ledger_amount)
        larger == MaxOf({Abs(bank_amount), Abs(ledger_amount)})
    IN  IF diff < 1 THEN One
        ELSE IF 20 * diff < larger THEN (4 * One) \div 5
        ELSE 0

\* C34: the amount score of every pair is 1.0 when the bank amount and
\* debit minus credit differ by less than 0.01, 0.8 when their relative
\* difference is below 5%, and 0 otherwise.
C34_AmountScore ==
    \A i \in 1..Len(bank_transactions), j \in 1..Len(ledger_entries) :
        _calculate_amount_score(bank_transactions[i], ledger_entries[j])
            = StatedAmountScore(bank_transactions[i], ledger_entries[j])

\* the amount score of the pair of match m
AmountScoreOf(m) ==
    _calculate_amount_score(bank_transactions[m.bank_transaction],
                            ledger_entries[m.ledger_entry])

\* C37: every accepted match has an amount score of at least 0.8, and every
\* match of type exact has amount score 1.0; a match whose amount score is
\* 0.8 has a confidence of at most 0.9.
C37_AmountScoreOfMatches ==
    \A k \in 1..Len(matches) :
        /\ AmountScoreOf(matches[k]) >= (4 * One) \div 5
        /\ matches[k].match_type = "exact" => AmountScoreOf(matches[k]) = One
        /\ AmountScoreOf(matches[k]) = (4 * One) \div 5
              => matches[k].confidence <= ExactThreshold

\* a match with amount score 0.8 whose date and description scores are 1.0:
\* its confidence is the double just below 0.9 and its type is partial
C37_Witness ==
    \E k \in 1..Len(matches) :
        /\ AmountScoreOf(matches[k]) = (4 * One) \div 5
        /\ matches[k].confidence >= ExactThreshold - 1
        /\ matches[k].match_type = "partial"

\* C35: in every run each node is executed at most once: no artifact type
\* contains 'bank', so after ledger_posting the run goes to the terminal
\* marker, also when reconciliation has routed back to ledger_posting.
C35_EachNodeOnce ==
    /\ \A node \in Nodes : Count(route, node) <= 1
    /\ \A i \in 1..Len(artifacts) : ~Contains("bank", artifacts[i].type)
    /\ \A i \in 1..Len(route) :
          (route[i] = "ledger_posting" /\ Returned(i)) => NextOf(i) = END

\* reconciliation reported adjustments, ledger_posting ran after it and the
\* run ended there
C35_Witness ==
    /\ Len(route) = 3
    /\ route[2] = "reconciliation"
    /\ route[3] = "ledger_posting"
    /\ Len(artifacts) = 3
    /\ artifacts[2].data.adjustments = "nonempty"
    /\ pc = "done"
    /\ response.success

\* C36: with the repository's steps a run that reaches the reconciliation
\* node has no attachment, the reconciliation step fails its
\* required-parameter check, and no run appends a reconciliation_result
\* artifact.
C36_ReconciliationAlwaysFails ==
    registry = "repo" =>
        /\ \A i \in 1..Len(artifacts) : artifacts[i].type # "reconciliation_result"
        /\ pc = "reconciliation" => attachments = 0
        /\ \A i \in 1..Len(route) :
              route[i] = "reconciliation" =>
                  /\ attachments = 0
                  /\ i = Len(route)
                  /\ pc = "failed"
                  /\ raised = Exception("step", "Missing required parameters")

\* a reconcile request without attachments failed in the reconciliation node
C36_Witness ==
    /\ registry = "repo"
    /\ route = <<"intent_classification", "reconciliation">>
    /\ pc = "failed"
    /\ ArtifactTypes = <<"intent_result">>
    /\ response.success = FALSE

\* the response has none of the fields built from a final state
NoStateFields ==
    DOMAIN response \cap {"session_id", "artifacts", "agent_route", "result"} = {}

\* C39: a response built from a final state has success = true, also when
\* the last step's output has success = false; success = false is returned
\* only when an exception escaped the run of the graph, and that response
\* has no session id, no artifacts and no route.
C39_FailureOnlyFromGraph ==
    /\ pc = "done" => response.success = TRUE
    /\ (Finished /\ response.success = FALSE) =>
          /\ route # <<>>
          /\ raised.kind \in {"step", "configuration"}
          /\ NoStateFields

\* C39 amended: the same, where the exception was raised anywhere inside
\* execute: while the initial state was built (no node has run) or during
\* the run of the graph.
C39_FailureOnlyFromException ==
    /\ pc = "done" => (response.success = TRUE /\ raised = NoException)
    /\ (Finished /\ response.success = FALSE) =>
          /\ pc = "failed"
          /\ raised.kind \in {"validation", "step", "configuration"}
          /\ raised.kind = "validation" <=> route = <<>>
          /\ response = Failure(raised)
          /\ NoStateFields

\* a final state whose last output has success = false was answered with
\* success = true
C39_Witness ==
    /\ pc = "done"
    /\ artifacts # <<>>
    /\ Last(artifacts).data.success = FALSE
    /\ response.success = TRUE
    /\ response.result.success = FALSE

\* C38: a node built by create_agent_node returns the state; when execute
\* returned it has appended exactly one '<agent>_result' artifact, the
\* agent's status is completed and no error record was added; when execute
\* raised it has added exactly one error record whose context names the
\* agent, the status is failed and no artifact was appended.
C38_NodeOutcome ==
    [][ status_log' # status_log =>
          LET agent_name == Last(route')
          IN  IF Len(artifacts') > Len(artifacts)
              THEN /\ Len(artifacts') = Len(artifacts) + 1
                   /\ Last(artifacts').type = agent_name \o "_result"
                   /\ agent_status'[agent_name] = "completed"
                   /\ errors' = errors
              ELSE /\ Len(errors') = Len(errors) + 1
                   /\ Last(errors').context.agent = agent_name
                   /\ agent_status'[agent_name] = "failed"
                   /\ artifacts' = artifacts
      ]_vars

\* the rows of call that a set of voucher rows and a set of entry rows hold
VoucherRowsOf(call, rows) == {v \in rows : v.id = call.id}
EntryRowsOf(call, rows) == {e \in rows : e.voucher_id = call.id}

\* C31: create_voucher is all-or-nothing.  A call that returned has left its
\* voucher and every one of its entries in the tables; a call that raised,
\* or has not returned, has left no voucher and no entry in the tables, and
\* after it raised nothing of it is pending in the session either.  A call
\* whose totals differ by more than 0.01 raises.
C31_AllOrNothing ==
    \A k \in 1..Len(voucher_calls) :
        LET call == voucher_calls[k]
            total_debit == TotalDebit(call.entries)
            total_credit == TotalCredit(call.entries)
        IN  /\ call.pc = "returned" =>
                  /\ Cardinality(VoucherRowsOf(call, db_vouchers)) = 1
                  /\ \A v \in VoucherRowsOf(call, db_vouchers) : v.amount = total_debit
                  /\ Cardinality(EntryRowsOf(call, db_ledger_entries)) = Len(call.entries)
                  /\ \A i \in 1..Len(call.entries) :
                        \E e \in EntryRowsOf(call, db_ledger_entries) :
                            /\ e.pos = i
                            /\ e.account_code = call.entries[i].account_code
                            /\ e.debit = GetOr(call.entries[i], "debit", 0)
                            /\ e.credit = GetOr(call.entries[i], "credit", 0)
                  /\ Abs(total_debit - total_credit) <= 1
            /\ call.pc # "returned" =>
                  /\ VoucherRowsOf(call, db_vouchers) = {}
                  /\ EntryRowsOf(call, db_ledger_entries) = {}
            /\ call.pc = "raised" =>
                  /\ call.error \in VoucherErrors
                  /\ VoucherRowsOf(call, session.vouchers) = {}
                  /\ EntryRowsOf(call, session.entries) = {}
            /\ Abs(total_debit - total_credit) > 1 =>
                  /\ call.pc \in {"called", "raised"}
                  /\ call.pc = "raised" => call.error = "ValueError"

\* a call raised after its voucher and its first entry were written, and the
\* next call on the same session stored a voucher with two entries
C31_Witness ==
    /\ pc = "vouchers"
    /\ Len(voucher_calls) = 2
    /\ voucher_calls[1].pc = "raised"
    /\ voucher_calls[1].error = "KeyError"
    /\ Len(voucher_calls[1].entries) = 2
    /\ voucher_calls[2].pc = "returned"
    /\ Cardinality(db_ledger_entries) = 2
    /\ Cardinality(db_vouchers) = 1

\* the number of calls up to the k-th that raised
RaisedUpTo(k) == Cardinality({m \in 1..k : voucher_calls[m].pc = "raised"})

\* C40: LedgerPostingAgent hands each transaction to create_voucher as a
\* voucher of one entry with debit = |amount| and credit = 0, or the
\* reverse; a transaction with |amount| > 0.01 is rejected by the balance
\* check, gets no voucher and is reported in unmapped_transactions; every
\* processed transaction is in exactly one of posted_entries and
\* unmapped_transactions, and the step returns success = true.
C40_SingleEntryRejected ==
    pc \in {"posting", "posted"} =>
        /\ Len(posted_entries) + Len(unmapped_transactions) = txn_pos - 1
        /\ \A k \in 1..Len(voucher_calls) :
              LET call == voucher_calls[k]
                  txn == transactions[k]
              IN  /\ Len(call.entries) = 1
                  /\ <<call.entries[1].debit, call.entries[1].credit>>
                        = IF txn.type = "debit" THEN <<Abs(txn.amount), 0>>
                          ELSE <<0, Abs(txn.amount)>>
                  /\ (Abs(txn.amount) > 1 /\ call.pc # "called") =>
                        /\ call.pc = "raised"
                        /\ call.error = "ValueError"
                        /\ VoucherRowsOf(call, db_vouchers) = {}
                  /\ k < txn_pos =>
                        IF call.pc = "raised"
                        THEN /\ unmapped_transactions[RaisedUpTo(k)].transaction = txn
                             /\ unmapped_transactions[RaisedUpTo(k)].error = call.error
                             /\ \A p \in 1..Len(posted_entries) :
                                   posted_entries[p].voucher_id # call.id
                        ELSE /\ call.pc = "returned"
                             /\ posted_entries[k - RaisedUpTo(k)].voucher_id = call.id
                             /\ Cardinality({p \in 1..Len(posted_entries) :
                                   posted_entries[p].voucher_id = call.id}) = 1
        /\ pc = "posted" =>
              /\ posting_result.success = TRUE
              /\ posting_result.processed_count + posting_result.unmapped_count
                    = Len(transactions)
              /\ posting_result.posted_entries = posted_entries
              /\ posting_result.unmapped_transactions = unmapped_transactions

\* a run over a transaction of 2.50, rejected as unbalanced, and one of
\* 0.01, posted
C40_Witness ==
    /\ pc = "posted"
    /\ Len(transactions) = 2
    /\ Abs(transactions[1].amount) > 1
    /\ transactions[2].amount = 1
    /\ Len(unmapped_transactions) = 1
    /\ unmapped_transactions[1].error = "ValueError"
    /\ Len(posted_entries) = 1
    /\ posted_entries[1].voucher_id = 2
    /\ posting_result.success = TRUE
    /\ Cardinality(db_vouchers) = 1

====
